---- MODULE Spec2Model ----
(***************************************************************************)
(* Model of the realtor-assistant core: the CMA valuation engine           *)
(* (core/cma/engine.py), the preference model (core/matching/              *)
(* preferences.py), the daily digest batch (apps/workers/tasks.py) and the *)
(* retrain endpoint (apps/api/main.py).                                    *)
(*                                                                         *)
(* Conventions.                                                            *)
(*  - An Optional value is a sequence: <<>> is None, <<v>> is the value v. *)
(*  - A Python float is an exact rational <<n, d>> with d > 0, reduced.    *)
(*    int() truncates toward zero, round() rounds to nearest, ties to even.*)
(*  - Money is in integer cents, as in the source.                         *)
(***************************************************************************)
EXTENDS Integers, Sequences, FiniteSets, TLC

VARIABLES
    subject,        \* compute_cma: the subject Listing
    comparables,    \* compute_cma: the (Listing, distance, days_back) entries
    cma,            \* compute_cma: outcome ("none" before the call)
    clock,          \* datetime.utcnow(): [t |-> instant in hours, year |-> its year]
    preference,     \* the PreferenceVector object the preference calls work on
    history,        \* the calls made on that object so far, each with the
                    \* value the object had when the call was made
    db,             \* the committed rows of the database, by table
    requests,       \* the POST requests being served: arguments, position
                    \* in the handler and the Session's loaded rows; in an
                    \* ingest run, the listings the provider has yet to stream
    digest,         \* run_daily_digests: outcome ("none" before the call)
    reportCalls     \* the ensure_cma_report and _select_comparables calls made
                    \* so far, each with the rows it saw and its outcome

vars == <<subject, comparables, cma, clock, preference, history, db, requests,
          digest, reportCalls>>
cmaVars == <<subject, comparables, cma>>
prefVars == <<clock, preference, history>>
apiVars == <<db, requests>>
batchVars == <<digest, reportCalls>>

----------------------------------------------------------------------------
(* Optional values and Python truthiness *)

None == <<>>
Some(v) == <<v>>
IsNone(x) == x = <<>>
\* `x or 0` for an Optional number
OrZero(x) == IF x = <<>> THEN 0 ELSE x[1]
\* bool(x) for an Optional number: None and 0 are falsy
Truthy(x) == x # <<>> /\ x[1] # 0
\* `a or b` for two Optional numbers
OrElse(a, b) == IF Truthy(a) THEN a ELSE b

----------------------------------------------------------------------------
(* Exact arithmetic standing for Python float arithmetic *)

Abs(x) == IF x < 0 THEN 0 - x ELSE x
Min(a, b) == IF a <= b THEN a ELSE b
Max(a, b) == IF a >= b THEN a ELSE b

RECURSIVE GCD(_, _)
GCD(a, b) == IF b = 0 THEN a ELSE GCD(b, a % b)

\* the rational n/d (d > 0) in lowest terms
RNorm(n, d) ==
    LET g == GCD(Abs(n), d)
    IN  IF n = 0 THEN <<0, 1>>
        ELSE IF n < 0 THEN <<0 - (Abs(n) \div g), d \div g>>
        ELSE <<n \div g, d \div g>>
RInt(n) == <<n, 1>>
RAdd(a, b) ==
    LET g == GCD(a[2], b[2])
    IN  RNorm(a[1] * (b[2] \div g) + b[1] * (a[2] \div g), (a[2] \div g) * b[2])
RNeg(a) == <<0 - a[1], a[2]>>
RSub(a, b) == RAdd(a, RNeg(b))
RMul(a, b) ==
    LET x == RNorm(a[1], b[2])
        y == RNorm(b[1], a[2])
    IN  <<x[1] * y[1], x[2] * y[2]>>

\* a/b <= c/d for a, c >= 0 and b, d > 0, by continued fractions
\* (no product is formed, so large operands cannot overflow)
RECURSIVE PosLeq(_, _, _, _)
PosLeq(a, b, c, d) ==
    LET qa == a \div b
        qc == c \div d
        ra == a % b
        rc == c % d
    IN  IF qa # qc THEN qa < qc
        ELSE IF ra = 0 THEN TRUE
        ELSE IF rc = 0 THEN FALSE
        ELSE PosLeq(d, rc, b, ra)

RLeq(a, b) ==
    IF a[1] <= 0 /\ b[1] >= 0 THEN TRUE
    ELSE IF a[1] > 0 /\ b[1] <= 0 THEN FALSE
    ELSE IF a[1] > 0 THEN PosLeq(a[1], a[2], b[1], b[2])
    ELSE PosLeq(0 - b[1], b[2], 0 - a[1], a[2])
RLt(a, b) == ~RLeq(b, a)
RMin(a, b) == IF RLeq(a, b) THEN a ELSE b
RMax(a, b) == IF RLeq(a, b) THEN b ELSE a

\* floor(a * b / c) for a, b >= 0 and c > 0 without forming a * b in full
MulDivFloor(a, b, c) == (a \div c) * b + ((a % c) * b) \div c

\* int(k * r): the integer k times the rational r, truncated toward zero
TruncMul(k, r) ==
    LET neg == (k < 0) # (r[1] < 0)
        m == MulDivFloor(Abs(r[1]), Abs(k), r[2])
    IN  IF neg THEN 0 - m ELSE m

\* the largest h in lo..hi with h/scale <= a * b, by bisection; a >= 0 and
\* b > 0 are rationals and lo/scale <= a * b.  The test h/scale <= a * b is
\* made as (h * b[2]) / (scale * b[1]) <= a, so a * b is never formed.
RECURSIVE FloorScaled(_, _, _, _, _)
FloorScaled(a, b, scale, lo, hi) ==
    IF lo >= hi THEN lo
    ELSE LET mid == (lo + hi + 1) \div 2
         IN  IF PosLeq(mid * b[2], scale * b[1], a[1], a[2])
             THEN FloorScaled(a, b, scale, mid, hi)
             ELSE FloorScaled(a, b, scale, lo, mid - 1)

\* round(a * b, digits) in units of 1/scale (scale = 10^digits), for
\* rationals a >= 0 and b > 0; ties go to the even neighbour
RoundPos(a, b, scale) ==
    LET top == scale * ((a[1] \div a[2]) + 1) * ((b[1] \div b[2]) + 1)
        f == FloorScaled(a, b, scale, 0, top)
        geHalf == PosLeq((2 * f + 1) * b[2], 2 * scale * b[1], a[1], a[2])
        leHalf == PosLeq(a[1], a[2], (2 * f + 1) * b[2], 2 * scale * b[1])
    IN  IF geHalf /\ leHalf THEN (IF f % 2 = 0 THEN f ELSE f + 1)
        ELSE IF geHalf THEN f + 1
        ELSE f

\* statistics.median of a non-empty sequence of integers, times 2
Median2(s) ==
    LET t == SortSeq(s, LAMBDA a, b: a < b)
        n == Len(t)
    IN  IF n % 2 = 1 THEN 2 * t[(n + 1) \div 2]
        ELSE t[n \div 2] + t[n \div 2 + 1]

RECURSIVE SeqSum(_)
SeqSum(s) == IF s = <<>> THEN 0 ELSE s[1] + SeqSum(Tail(s))

----------------------------------------------------------------------------
(* core/cma/engine.py *)

BED_ADJUST_CENTS == 1200000
BATH_ADJUST_CENTS == 800000
GARAGE_ADJUST_CENTS == 800000
POOL_ADJUST_CENTS == 2000000
YEAR_ADJUST_CENTS == 100000

\* settings.deal_discount_threshold = 0.8
DealDiscountThreshold == <<4, 5>>
\* the condition-note keys that suppress a deal alert
DefectKeys == {"mechanical", "electrical", "structural"}

\* dict.get(key) on a dict modelled as a function: None when the key is absent
DictGet(d, k) == IF k \in DOMAIN d THEN <<d[k]>> ELSE <<>>
\* a slip: a key that is present counts, whatever its value
DictTruthyPresentOnly(d, k) == k \in DOMAIN d
\* bool(dict.get(key)) for a dict of booleans
DictTruthy(d, k) == k \in DOMAIN d /\ d[k] = TRUE

\* a slip: the list price fallback is forgotten
BasePriceCloseOnly(listing) == listing.close_price_cents
\* comp.close_price_cents or comp.list_price_cents
BasePrice(listing) == OrElse(listing.close_price_cents, listing.list_price_cents)

\* price_per_sqft_cents: None, or <<price / sqft>> as a rational
price_per_sqft_cents(listing) ==
    LET sqft == OrZero(listing.sqft)
        price == BasePrice(listing)
    IN  IF sqft <= 0 THEN None
        ELSE IF ~Truthy(price) THEN None
        ELSE Some(RNorm(price[1], sqft))

\* (amenities or {}).get("pool") or (features and "pool" in features)
HasPool(listing) ==
    DictTruthy(listing.amenities, "pool") \/ "pool" \in listing.features

\* the name -> cents map of the adjustments _adjust_price applies
Adjustments(subj, comp, baseline_psf) ==
    LET bed_delta == OrZero(subj.beds) - OrZero(comp.beds)
        bath_delta == OrZero(subj.baths) - OrZero(comp.baths)
        applied ==
            {k \in {"bedrooms"} : bed_delta # 0}
            \cup {k \in {"bathrooms"} : bath_delta # 0}
            \cup {k \in {"living_area"} : Truthy(subj.sqft) /\ Truthy(comp.sqft)}
            \cup {k \in {"lot_size"} : Truthy(subj.lot_sqft) /\ Truthy(comp.lot_sqft)}
            \cup {k \in {"garage"} :
                    Truthy(subj.parking_spaces) # Truthy(comp.parking_spaces)}
            \cup {k \in {"pool"} : HasPool(subj) # HasPool(comp)}
            \cup {k \in {"year_built"} :
                    Truthy(subj.year_built) /\ Truthy(comp.year_built)}
        amount(k) ==
            CASE k = "bedrooms" -> bed_delta * BED_ADJUST_CENTS
              [] k = "bathrooms" -> bath_delta * BATH_ADJUST_CENTS
              [] k = "living_area" ->
                    TruncMul(subj.sqft[1] - comp.sqft[1], baseline_psf)
              [] k = "lot_size" ->
                    TruncMul(subj.lot_sqft[1] - comp.lot_sqft[1],
                             RMul(baseline_psf, <<3, 20>>))
              [] k = "garage" ->
                    IF Truthy(subj.parking_spaces) THEN GARAGE_ADJUST_CENTS
                    ELSE 0 - GARAGE_ADJUST_CENTS
              [] k = "pool" ->
                    IF HasPool(subj) THEN POOL_ADJUST_CENTS
                    ELSE 0 - POOL_ADJUST_CENTS
              [] k = "year_built" ->
                    (subj.year_built[1] - comp.year_built[1]) * YEAR_ADJUST_CENTS
    IN  [k \in applied |-> amount(k)]

RECURSIVE MapSum(_)
MapSum(f) ==
    IF DOMAIN f = {} THEN 0
    ELSE LET k == CHOOSE x \in DOMAIN f : TRUE
         IN  f[k] + MapSum([x \in DOMAIN f \ {k} |-> f[x]])

\* a slip: the adjusted price is returned unclamped
ClampPriceMissing(price_cents) == price_cents
\* the final clamp of _adjust_price: max(price_cents, 0)
ClampPrice(price_cents) == Max(price_cents, 0)

\* _adjust_price: raised = TRUE stands for the ValueError
_adjust_price(subj, comp, baseline_psf) ==
    LET base_price == BasePrice(comp)
        adjustments == Adjustments(subj, comp, baseline_psf)
    IN  IF ~Truthy(base_price) THEN [raised |-> TRUE]
        ELSE [raised |-> FALSE,
              price |-> ClampPrice(base_price[1] + MapSum(adjustments)),
              adjustments |-> adjustments]

\* the baseline price per square foot compute_cma passes to _adjust_price
BaselinePsf(subj, entries) ==
    LET withPsf == SelectSeq(entries,
                      LAMBDA e: price_per_sqft_cents(e.listing) # None)
        RECURSIVE Total(_)
        Total(s) == IF s = <<>> THEN <<0, 1>>
                    ELSE RAdd(price_per_sqft_cents(s[1].listing)[1], Total(Tail(s)))
    IN  IF withPsf # <<>> THEN RMul(Total(withPsf), <<1, Len(withPsf)>>)
        ELSE IF Truthy(subj.sqft) /\ Truthy(subj.list_price_cents)
             THEN IF subj.list_price_cents[1] < 0
                  THEN RNeg(RNorm(0 - subj.list_price_cents[1], subj.sqft[1]))
                  ELSE RNorm(subj.list_price_cents[1], subj.sqft[1])
        ELSE <<0, 1>>

\* the clamp of the raw confidence in _confidence_from_prices
ClampConfidence(x) == RMax(<<1, 5>>, RMin(<<19, 20>>, x))

\* a slip: the recency factor loses its upper clamp min(1.0, .)
RecentFactorUncapped(comps) ==
    LET recent_days == [i \in 1..Len(comps) |->
                           Max(1, IF Truthy(comps[i].days_on_market)
                                  THEN comps[i].days_on_market[1] ELSE 1)]
    IN  IF comps = <<>> THEN <<1, 1>>
        ELSE RMax(<<4, 5>>, RNorm(SeqSum(recent_days), 180 * Len(comps)))
\* recent_factor of _confidence_from_prices
RecentFactor(comps) ==
    LET recent_days == [i \in 1..Len(comps) |->
                           Max(1, IF Truthy(comps[i].days_on_market)
                                  THEN comps[i].days_on_market[1] ELSE 1)]
    IN  IF comps = <<>> THEN <<1, 1>>
        ELSE RMax(<<4, 5>>,
                  RMin(<<1, 1>>, RNorm(SeqSum(recent_days), 180 * Len(comps))))

\* _confidence_from_prices, in hundredths (the result of round(., 2))
_confidence_from_prices(adjusted_prices, comps) ==
    IF adjusted_prices = <<>> THEN 0
    ELSE
    LET n == Len(adjusted_prices)
        median2 == Median2(adjusted_prices)
        \* |p - median| in halves; their median in quarters
        mad4 == Median2([i \in 1..n |-> Abs(2 * adjusted_prices[i] - median2)])
        variability == RNorm(mad4, 2 * median2)
        size_factor == RMin(<<1, 1>>, RNorm(n, 6))
        confidence == ClampConfidence(RMul(size_factor, RSub(<<1, 1>>, variability)))
        recent_factor == RecentFactor(comps)
    IN  IF median2 <= 0 THEN 0
        ELSE RoundPos(confidence, recent_factor, 100)

\* _detect_deal: None, or <<DealAlertPayload>> (discount_ratio in 1/10000)
_detect_deal(subj, price_mid_cents) ==
    LET list_price_cents == subj.list_price_cents
        lp == list_price_cents[1]
        ratio == RNorm(Abs(lp), price_mid_cents)
        rounded == RoundPos(ratio, <<1, 1>>, 10000)
        issues == {key \in DefectKeys : DictTruthy(subj.condition_notes, key)}
    IN  IF ~Truthy(list_price_cents) \/ price_mid_cents <= 0 THEN None
        ELSE IF lp > 0 /\ RLt(DealDiscountThreshold, ratio) THEN None
        ELSE IF issues # {} THEN None
        ELSE Some([listing_id |-> subj.id,
                   market_value_cents |-> price_mid_cents,
                   list_price_cents |-> lp,
                   discount_ratio |-> IF lp < 0 THEN 0 - rounded ELSE rounded])

\* a slip: the band radius is subtracted on the high side too
PriceHighSignSlip(price_mid, band_radius) == price_mid - band_radius
\* price_high of compute_cma
PriceHigh(price_mid, band_radius) == price_mid + band_radius
\* price_low of compute_cma
PriceLow(price_mid, band_radius) == Max(price_mid - band_radius, 0)

\* band_radius of compute_cma: int(1.4826 * mad), where mad is the median
\* absolute deviation from price_mid, or price_mid * 0.05 when that is 0
BandRadius(adjusted_prices, price_mid) ==
    LET mad2 == Median2([i \in 1..Len(adjusted_prices) |->
                            Abs(adjusted_prices[i] - price_mid)])
    IN  IF mad2 # 0 THEN MulDivFloor(mad2, 14826, 20000)
        ELSE MulDivFloor(price_mid, 7413, 100000)

\* a slip: `break` instead of `continue`, the loop stops at the first
\* comparable without a price
KeptUntilFirstError(adj) ==
    LET RECURSIVE Prefix(_)
        Prefix(i) == IF i > Len(adj) \/ adj[i].raised THEN <<>>
                     ELSE <<i>> \o Prefix(i + 1)
    IN  Prefix(1)
\* the indices of the comparables the adjustment loop of compute_cma keeps:
\* a ValueError of _adjust_price skips that comparable only
Kept(adj) == SelectSeq([i \in 1..Len(adj) |-> i], LAMBDA i: ~adj[i].raised)

\* compute_cma: status "ValueError" stands for the raised error
compute_cma(subj, entries) ==
    LET baseline_psf == BaselinePsf(subj, entries)
        adj == [i \in 1..Len(entries) |->
                   _adjust_price(subj, entries[i].listing, baseline_psf)]
        kept == Kept(adj)
        comps == [j \in 1..Len(kept) |->
                    [listing_id |-> entries[kept[j]].listing.id,
                     raw_price_cents |-> BasePrice(entries[kept[j]].listing)[1],
                     adjusted_price_cents |-> adj[kept[j]].price,
                     adjustments |-> adj[kept[j]].adjustments,
                     distance_miles |-> entries[kept[j]].distance,
                     days_back |-> entries[kept[j]].days_back]]
        adjusted_prices == [j \in 1..Len(comps) |-> comps[j].adjusted_price_cents]
        price_mid == Median2(adjusted_prices) \div 2
        band_radius == BandRadius(adjusted_prices, price_mid)
    IN  IF adjusted_prices = <<>> THEN [status |-> "ValueError"]
        ELSE [status |-> "ok",
              price_low_cents |-> PriceLow(price_mid, band_radius),
              price_mid_cents |-> price_mid,
              price_high_cents |-> PriceHigh(price_mid, band_radius),
              confidence |-> _confidence_from_prices(
                                 adjusted_prices,
                                 [i \in 1..Len(entries) |-> entries[i].listing]),
              comps |-> comps,
              deal_alert |-> _detect_deal(subj, price_mid)]

----------------------------------------------------------------------------
(* core/matching/preferences.py *)

\* settings.preference_learning_rate = 0.25
PreferenceLearningRate == <<1, 4>>
\* settings.preference_decay_days
PreferenceDecayDays == 45
\* instants are counted in hours
HoursPerDay == 24

\* dict.get(key, default) on a dict of floats
GetOr(d, k, default) == IF k \in DOMAIN d THEN d[k] ELSE default

RECURSIVE RSumOver(_, _)
\* the sum of f[k] over the keys k of the set K
RSumOver(K, f) ==
    IF K = {} THEN <<0, 1>>
    ELSE LET k == CHOOSE x \in K : TRUE
         IN  RAdd(f[k], RSumOver(K \ {k}, f))

\* round(n / d) to the nearest integer, ties to even (d > 0)
RoundDiv(n, d) ==
    LET a == Abs(n)
        q == a \div d
        r == a % d
        m == IF 2 * r > d THEN q + 1
             ELSE IF 2 * r < d THEN q
             ELSE IF q % 2 = 0 THEN q ELSE q + 1
    IN  IF n < 0 THEN 0 - m ELSE m

\* Naturals beyond 32 bits, for the products under the square root of the
\* cosine: little-endian sequences of base-10000 digits
BigBase == 10000

RECURSIVE BigFromInt(_)
BigFromInt(n) == IF n = 0 THEN <<>> ELSE <<n % BigBase>> \o BigFromInt(n \div BigBase)

RECURSIVE BigAddCarry(_, _, _)
BigAddCarry(x, y, carry) ==
    IF x = <<>> /\ y = <<>> THEN (IF carry = 0 THEN <<>> ELSE <<carry>>)
    ELSE LET dx == IF x = <<>> THEN 0 ELSE x[1]
             dy == IF y = <<>> THEN 0 ELSE y[1]
             t == dx + dy + carry
         IN  <<t % BigBase>> \o BigAddCarry(IF x = <<>> THEN <<>> ELSE Tail(x),
                                            IF y = <<>> THEN <<>> ELSE Tail(y),
                                            t \div BigBase)
BigAdd(x, y) == BigAddCarry(x, y, 0)

RECURSIVE BigMulDigit(_, _, _)
BigMulDigit(x, d, carry) ==
    IF x = <<>> THEN (IF carry = 0 THEN <<>> ELSE <<carry>>)
    ELSE LET t == x[1] * d + carry
         IN  <<t % BigBase>> \o BigMulDigit(Tail(x), d, t \div BigBase)

RECURSIVE BigMul(_, _)
BigMul(x, y) ==
    IF y = <<>> \/ x = <<>> THEN <<>>
    ELSE LET rest == BigMul(x, Tail(y))
         IN  BigAdd(IF y[1] = 0 THEN <<>> ELSE BigMulDigit(x, y[1], 0),
                    IF rest = <<>> THEN <<>> ELSE <<0>> \o rest)

\* x <= y for two numbers without leading zero digits
RECURSIVE BigLeqSameLen(_, _)
BigLeqSameLen(x, y) ==
    IF x = <<>> THEN TRUE
    ELSE LET n == Len(x)
         IN  IF x[n] # y[n] THEN x[n] < y[n]
             ELSE BigLeqSameLen(SubSeq(x, 1, n - 1), SubSeq(y, 1, n - 1))
BigLeq(x, y) ==
    IF Len(x) # Len(y) THEN Len(x) < Len(y) ELSE BigLeqSameLen(x, y)

\* k^2 * left <= 4 * right: with left and right of CosScaled and k = 2 * j,
\* this is (j / 10^6)^2 <= n^2 / (a * b)
SquareAtLeast(k, left, right) ==
    LET kk == BigMul(BigFromInt(k), BigFromInt(k))
    IN  BigLeq(BigMul(kk, left), BigMul(BigFromInt(4), right))

\* the largest j in lo..hi with (j / 10^6)^2 <= n^2 / (a * b)
RECURSIVE CosFloor(_, _, _, _)
CosFloor(left, right, lo, hi) ==
    IF lo >= hi THEN lo
    ELSE LET mid == (lo + hi + 1) \div 2
         IN  IF SquareAtLeast(2 * mid, left, right)
             THEN CosFloor(left, right, mid, hi)
             ELSE CosFloor(left, right, lo, mid - 1)

\* n / sqrt(a * b) for the rationals 0 <= n <= sqrt(a * b), a > 0, b > 0, in
\* units of 1/1000000, rounded to the nearest unit
CosScaled(n, a, b) ==
    LET big(x) == BigFromInt(x)
        million == big(1000000)
        left == BigMul(BigMul(big(n[2]), big(n[2])), BigMul(big(a[1]), big(b[1])))
        right == BigMul(BigMul(BigMul(million, million),
                               BigMul(big(n[1]), big(n[1]))),
                        BigMul(big(a[2]), big(b[2])))
        whole == BigLeq(BigMul(million, BigMul(million, left)), right)
        j == CosFloor(left, right, 0, 1000000)
    IN  IF whole THEN 1000000
        ELSE IF SquareAtLeast(2 * j + 1, left, right) THEN j + 1 ELSE j

\* the empty PreferenceVector() created at instant t
EmptyPreferences(t) == [numeric |-> <<>>, tags |-> <<>>, updated_at |-> t]

\* datetime.isoformat(): the string written for the instant t
IsoFormat(t) == [kind |-> "iso", t |-> t]

\* PreferenceVector.as_dict
as_dict(prefs) ==
    [numeric |-> prefs.numeric, tags |-> prefs.tags,
     updated_at |-> IsoFormat(prefs.updated_at)]

\* JSON values other than mappings, as the preference_vector column may hold
\* them: [kind |-> k] with k one of
\*   "null", "zero" (0), "number" (another number), "empty_text" (""),
\*   "text" (a string that is not an ISO instant), "empty_list" ([]),
\*   "list" (a list of numbers);
\* an ISO string is IsoFormat(t), a mapping is a function on its keys, and
\* <<>> is the empty mapping
IsScalar(v) == "kind" \in DOMAIN v
IsMapping(v) == ~IsScalar(v)
\* bool(v) of a JSON value
JsonTruthy(v) ==
    IF IsScalar(v) THEN v.kind \in {"number", "text", "list", "iso"}
    ELSE DOMAIN v # {}

\* dict(v): the exception raised, "" when there is none
DictRaised(v) ==
    IF IsMapping(v) \/ v.kind \in {"empty_text", "empty_list"} THEN ""
    ELSE IF v.kind \in {"text", "iso"} THEN "ValueError"
    ELSE "TypeError"
\* dict(v) when it does not raise
DictOf(v) == IF IsMapping(v) THEN v ELSE <<>>

\* the exception PreferenceVector.from_client raises on the persisted value
\* raw, "" when it returns: raw.get of a truthy value that is not a mapping
\* (lines 79-80), datetime.fromisoformat of a truthy updated_at that is not
\* a string (line 75; only ValueError is caught), dict() of an entry that
\* is not a mapping
from_client_raised(raw) ==
    IF ~JsonTruthy(raw) THEN ""
    ELSE IF IsScalar(raw) THEN "AttributeError"
    ELSE IF /\ "updated_at" \in DOMAIN raw
            /\ JsonTruthy(raw.updated_at)
            /\ ~(IsScalar(raw.updated_at) /\ raw.updated_at.kind \in {"iso", "text"})
         THEN "TypeError"
    ELSE IF "numeric" \in DOMAIN raw /\ DictRaised(raw.numeric) # ""
         THEN DictRaised(raw.numeric)
    ELSE IF "tags" \in DOMAIN raw THEN DictRaised(raw.tags)
    ELSE ""

\* PreferenceVector.from_client when it returns: a falsy persisted value
\* gives the empty vector; an updated_at that is missing, falsy or not an
\* ISO string yields the current instant
from_client(raw, utcnow) ==
    IF ~JsonTruthy(raw) THEN EmptyPreferences(utcnow)
    ELSE [numeric |-> IF "numeric" \in DOMAIN raw THEN DictOf(raw.numeric) ELSE <<>>,
          tags |-> IF "tags" \in DOMAIN raw THEN DictOf(raw.tags) ELSE <<>>,
          updated_at |->
              IF /\ "updated_at" \in DOMAIN raw
                 /\ IsScalar(raw.updated_at)
                 /\ raw.updated_at.kind = "iso"
              THEN raw.updated_at.t ELSE utcnow]

\* _bool_as_float
_bool_as_float(b) == IF b THEN <<1, 1>> ELSE <<0, 1>>

\* _normalize(value, default) / scale
Normalized(value, default, scale) ==
    RNorm(IF value = None THEN default ELSE value[1], scale)

\* the price entry of vector_from_listing
PriceFeature(listing, explicit_prefs) ==
    LET price_cents == OrElse(listing.list_price_cents, listing.market_estimate_cents)
        prefs == explicit_prefs
        has(k) == k \in DOMAIN prefs /\ prefs[k] # 0
        price_target ==
            IF "price" \in DOMAIN prefs /\ Len(prefs.price) = 2
            THEN Some(RNorm(prefs.price[1] + prefs.price[2], 2))
            ELSE IF has("price_max") /\ has("price_min")
            THEN Some(RNorm(prefs.price_min + prefs.price_max, 2))
            ELSE IF Truthy(price_cents) THEN Some(RNorm(price_cents[1], 100))
            ELSE None
    IN  IF price_target # None /\ price_target[1][1] # 0 THEN price_target[1]
        ELSE RNorm(OrZero(price_cents), 10000)

\* vector_from_listing; year is datetime.utcnow().year at the call
vector_from_listing(listing, explicit_prefs, year) ==
    LET amenities == listing.amenities
        walkscore == DictGet(amenities, "walkscore")
    IN  [numeric |->
            [price |-> PriceFeature(listing, explicit_prefs),
             sqft |-> Normalized(listing.sqft, 0, 4000),
             beds |-> Normalized(listing.beds, 0, 1),
             baths |-> Normalized(listing.baths, 0, 1),
             lot_sqft |-> Normalized(listing.lot_sqft, 0, 20000),
             year_built |->
                 RNorm((IF listing.year_built = None THEN year
                        ELSE listing.year_built[1]) - 1950, 100),
             hoa_fee |-> Normalized(listing.hoa_fee_cents, 0, 10000),
             days_on_market |-> Normalized(listing.days_on_market, 0, 120)],
         tags |->
            [has_garage |->
                 IF DictTruthy(amenities, "garage") THEN <<1, 1>>
                 ELSE Normalized(listing.parking_spaces, 0, 1),
             has_pool |-> _bool_as_float(DictTruthy(amenities, "pool")),
             new_construction |->
                 _bool_as_float(Truthy(listing.year_built)
                                /\ listing.year_built[1] >= year - 3),
             walkable |->
                 _bool_as_float(walkscore # None /\ walkscore[1] \in Int
                                /\ walkscore[1] >= 70),
             open_floorplan |-> _bool_as_float("open_floorplan" \in listing.features),
             finished_basement |->
                 _bool_as_float("finished_basement" \in listing.features),
             large_yard |-> _bool_as_float(Truthy(listing.lot_sqft)
                                           /\ listing.lot_sqft[1] >= 8000),
             waterfront |-> _bool_as_float("waterfront" \in listing.features)]]

\* a slip: vectors without weight count as a perfect match
ZeroNormSimilarityOne(vec_a, vec_b) == 1000000
\* the 0.0 returned for an empty operand (line 142) or a zero norm (line 147)
ZeroNormSimilarity(vec_a, vec_b) == 0

\* cosine_similarity, in units of 1/1000000 (exact when the cosine is 0, 1
\* or -1, otherwise the nearest unit)
cosine_similarity(vec_a, vec_b) ==
    LET keys == DOMAIN vec_a \cup DOMAIN vec_b
        numerator == RSumOver(keys, [k \in keys |->
                        RMul(GetOr(vec_a, k, <<0, 1>>), GetOr(vec_b, k, <<0, 1>>))])
        sq_a == RSumOver(DOMAIN vec_a, [k \in DOMAIN vec_a |-> RMul(vec_a[k], vec_a[k])])
        sq_b == RSumOver(DOMAIN vec_b, [k \in DOMAIN vec_b |-> RMul(vec_b[k], vec_b[k])])
        n == <<Abs(numerator[1]), numerator[2]>>
    IN  IF DOMAIN vec_a = {} \/ DOMAIN vec_b = {}
        THEN ZeroNormSimilarity(vec_a, vec_b)
        ELSE IF sq_a[1] = 0 \/ sq_b[1] = 0 THEN ZeroNormSimilarity(vec_a, vec_b)
        ELSE IF numerator[1] = 0 THEN 0
        ELSE IF numerator[1] < 0 THEN 0 - CosScaled(n, sq_a, sq_b)
        ELSE CosScaled(n, sq_a, sq_b)

\* score_listing, in units of 1/10000 (the result of round(., 4))
score_listing(listing_vector, prefs) ==
    LET numeric_score == cosine_similarity(listing_vector.numeric, prefs.numeric)
        tag_score == cosine_similarity(listing_vector.tags, prefs.tags)
    IN  RoundDiv(7 * numeric_score + 3 * tag_score, 1000)

\* lr = learning_rate or settings.preference_learning_rate
EffectiveLearningRate(learning_rate) ==
    IF learning_rate # None /\ learning_rate[1][1] # 0 THEN learning_rate[1]
    ELSE PreferenceLearningRate

\* a slip: the step is subtracted
FeedbackStepSubtracted(current, lr, signal_strength, value) ==
    RSub(current, RMul(RMul(lr, signal_strength), value))
\* current + lr * signal_strength * value
FeedbackStep(current, lr, signal_strength, value) ==
    RAdd(current, RMul(RMul(lr, signal_strength), value))

\* one weight map after the loop of apply_feedback over the vector's items
FeedbackWeights(weights, values, lr, signal_strength) ==
    [k \in DOMAIN weights \cup DOMAIN values |->
        IF k \in DOMAIN values
        THEN FeedbackStep(GetOr(weights, k, <<0, 1>>), lr, signal_strength, values[k])
        ELSE weights[k]]

\* apply_feedback: the PreferenceVector object after the call
apply_feedback(prefs, listing_vector, signal_strength, learning_rate, utcnow) ==
    LET lr == EffectiveLearningRate(learning_rate)
    IN  [numeric |-> FeedbackWeights(prefs.numeric, listing_vector.numeric,
                                     lr, signal_strength),
         tags |-> FeedbackWeights(prefs.tags, listing_vector.tags,
                                  lr, signal_strength),
         updated_at |-> utcnow]

\* a slip: an elapsed time of exactly the window already decays
WithinDecayWindowStrict(delta) == delta < PreferenceDecayDays * HoursPerDay
\* delta <= timedelta(days=settings.preference_decay_days), delta in hours
WithinDecayWindow(delta) == delta <= PreferenceDecayDays * HoursPerDay

\* a slip: the floor max(0.2, .) is forgotten
DecayFactorUnfloored(days) == RSub(<<1, 1>>, RNorm(days, PreferenceDecayDays * 4))
\* decay_factor for delta.days = days
DecayFactor(days) ==
    RMax(<<1, 5>>, RSub(<<1, 1>>, RNorm(days, PreferenceDecayDays * 4)))

\* decay_preferences(prefs, now): the PreferenceVector object after the call;
\* delta.days is the whole number of days in delta, rounded down
decay_preferences(prefs, now) ==
    LET delta == now - prefs.updated_at
        decay_factor == DecayFactor(delta \div HoursPerDay)
    IN  IF WithinDecayWindow(delta) THEN prefs
        ELSE [numeric |-> [k \in DOMAIN prefs.numeric |->
                              RMul(prefs.numeric[k], decay_factor)],
              tags |-> [k \in DOMAIN prefs.tags |->
                           RMul(prefs.tags[k], decay_factor)],
              updated_at |-> now]

\* the loop of retrain_preferences over the interactions; an interaction is
\* a dict that may lack "listing_id" or "signal", listings are indexed by
\* str(listing.id)
RECURSIVE ApplyInteractions(_, _, _, _, _)
ApplyInteractions(prefs, explicit, listings, interactions, utcnow) ==
    IF interactions = <<>> THEN prefs
    ELSE LET interaction == interactions[1]
             found == IF "listing_id" \in DOMAIN interaction
                      THEN {l \in listings : l.id = interaction.listing_id}
                      ELSE {}
             listing == CHOOSE l \in found : TRUE
             vector == vector_from_listing(listing, explicit, utcnow.year)
             signal == GetOr(interaction, "signal", <<0, 1>>)
         IN  ApplyInteractions(
                 IF found = {} THEN prefs
                 ELSE apply_feedback(prefs, vector, signal, None, utcnow.t),
                 explicit, listings, Tail(interactions), utcnow)

\* a slip: the decay step is left out
retrain_preferences_undecayed(client, listings, interactions, utcnow) ==
    ApplyInteractions(from_client(client.preference_vector, utcnow.t),
                      client.prefs, listings, interactions, utcnow)
\* retrain_preferences: the PreferenceVector it returns; the caller's
\* client.preference_vector becomes as_dict of it.  utcnow = [t, year].
retrain_preferences(client, listings, interactions, utcnow) ==
    LET prefs == from_client(client.preference_vector, utcnow.t)
        explicit == client.prefs
        decayed == decay_preferences(prefs, utcnow.t)
    IN  ApplyInteractions(decayed, explicit, listings, interactions, utcnow)

----------------------------------------------------------------------------
(* apps/api/main.py: the retrain endpoint *)

\* .limit(250) of the interactions query
RetrainInteractionLimit == 250

\* the Client row with the id, as .one_or_none() returns it
ClientRows(clients, client_id) ==
    SelectSeq(clients, LAMBDA c : c.id = client_id)

\* the interactions query: the client's rows, newest first (the table is
\* kept in that order), at most 250
InteractionRows(interactions, client_id) ==
    LET mine == SelectSeq(interactions, LAMBDA ix : ix.client_id = client_id)
    IN  SubSeq(mine, 1, Min(Len(mine), RetrainInteractionLimit))

\* interaction_payload: one item per stored row that has a listing_id, then
\* the items of the request.  Interaction has no attribute `metadata` of its
\* own, ix.metadata is the MetaData of the declarative base and has no
\* .get, so building the item of a stored row raises AttributeError.
InteractionPayload(rows, request_interactions) ==
    IF \E i \in 1..Len(rows) : rows[i].listing_id # None
    THEN [raised |-> TRUE]
    ELSE [raised |-> FALSE, payload |-> request_interactions]

\* the Listing rows whose id is a listing_id of the payload
PayloadListings(listings, payload) ==
    LET listing_ids == {payload[i].listing_id :
                           i \in {j \in 1..Len(payload) :
                                     "listing_id" \in DOMAIN payload[j]}}
    IN  {listings[i] : i \in {j \in 1..Len(listings) :
                                 listings[j].id \in listing_ids}}

\* the handler from the loaded rows on: the PreferenceVector it computes
retrain(client, rows, listings, request_interactions, utcnow) ==
    LET built == InteractionPayload(rows, request_interactions)
    IN  IF built.raised THEN [raised |-> TRUE]
        ELSE [raised |-> FALSE,
              prefs |-> retrain_preferences(
                            client, PayloadListings(listings, built.payload),
                            built.payload, utcnow)]

----------------------------------------------------------------------------
(* apps/api/main.py: the draft approval endpoint *)

\* the values of the draft_status Enum of DraftMessage.status
DraftStatuses == {"draft", "pending_approval", "approved", "sent", "canceled"}

\* the DraftMessage with the id and the client_id, as .one_or_none() returns it
DraftRows(drafts, draft_id, client_id) ==
    SelectSeq(drafts, LAMBDA m : m.id = draft_id /\ m.client_id = client_id)

\* line 226: the statuses from which a draft may be approved
Approvable(draft) == draft.status \in {"draft", "pending_approval"}

\* lines 228-230: the UPDATE db.commit() issues for the loaded draft
ApprovalCommitted(drafts, draft_id, utcnow) ==
    [i \in 1..Len(drafts) |->
        IF drafts[i].id = draft_id
        THEN [drafts[i] EXCEPT !.status = "approved", !.sent_at = Some(utcnow.t)]
        ELSE drafts[i]]

----------------------------------------------------------------------------
(* core/storage/upsert.py and NormalizedListing.to_orm_dict *)

\* history[-50:] of _update_listing
HistoryLimit == 50

\* the MUTABLE_FIELDS the model follows; the others are updated the same way
\* as standard_status
MutableFields == {"list_price_cents", "list_price_history", "standard_status"}

\* MUTABLE_FIELDS is a set of strings: the order in which `for field in
\* MUTABLE_FIELDS` visits it is fixed within a process and differs between
\* processes (string hashing is randomised)
FieldOrders ==
    {order \in [1..Cardinality(MutableFields) -> MutableFields] :
        \A i, j \in 1..Cardinality(MutableFields) : i # j => order[i] # order[j]}

\* _to_cents: an amount in 1/1000 dollar, quantized to cents with
\* ROUND_HALF_UP, as a number of cents
_to_cents(value) ==
    IF value = None THEN None
    ELSE IF value[1] >= 0 THEN Some((value[1] + 5) \div 10)
    ELSE Some(0 - ((0 - value[1] + 5) \div 10))

\* the entries of to_orm_dict the model follows
to_orm_dict(normalized) ==
    [dedupe_key |-> normalized.dedupe_key,
     standard_status |-> normalized.standard_status,
     list_price_cents |-> _to_cents(normalized.list_price),
     list_price_history |-> normalized.list_price_history]

\* s[-n:]
LastN(s, n) == SubSeq(s, Max(1, Len(s) - n + 1), Len(s))

\* bool(value) of a list price (Optional int) or of a list
FieldTruthy(value) == value # <<>> /\ value[1] # 0

\* one iteration of the loop of _update_listing
UpdateField(listing, payload, field, utcnow) ==
    IF payload[field] = listing[field] THEN listing
    ELSE IF /\ field = "list_price_cents"
            /\ FieldTruthy(listing[field]) /\ FieldTruthy(payload[field])
         THEN [listing EXCEPT
                  !.list_price_history =
                      LastN(Append(@, [at |-> utcnow.t,
                                       previous |-> listing[field][1],
                                       new |-> payload[field][1]]),
                            HistoryLimit),
                  !.list_price_cents = payload[field]]
         ELSE [listing EXCEPT ![field] = payload[field]]

\* _update_listing, the fields visited in the given order
RECURSIVE _update_listing(_, _, _, _)
_update_listing(listing, payload, order, utcnow) ==
    IF order = <<>> THEN listing
    ELSE _update_listing(UpdateField(listing, payload, order[1], utcnow),
                         payload, Tail(order), utcnow)

\* upsert_listing: the listings table afterwards; payload has no
\* last_seen_at, so last_seen_at becomes datetime.utcnow()
upsert_listing(listings, normalized, order, utcnow) ==
    LET payload == to_orm_dict(normalized)
    IN  IF \E i \in 1..Len(listings) : listings[i].dedupe_key = payload.dedupe_key
        THEN [i \in 1..Len(listings) |->
                 IF listings[i].dedupe_key = payload.dedupe_key
                 THEN [_update_listing(listings[i], payload, order, utcnow)
                          EXCEPT !.last_seen_at = utcnow.t]
                 ELSE listings[i]]
        ELSE Append(listings, payload @@ [last_seen_at |-> utcnow.t])

----------------------------------------------------------------------------
(* apps/workers/tasks.py: the daily digest batch *)

\* A database is a record of tables, each a sequence of rows in query order.
EmptyDb ==
    [clients |-> <<>>, interactions |-> <<>>, listings |-> <<>>,
     snapshots |-> <<>>, cma_reports |-> <<>>, comparable_sales |-> <<>>,
     deal_alerts |-> <<>>, drafts |-> <<>>]

\* allowed_statuses() under the default settings
AllowedStatuses == {"Active", "ActiveUnderContract", "ComingSoon"}
\* settings.approved_counties
ApprovedCounties ==
    {"Schuylkill", "Northumberland", "Dauphin", "Carbon", "Monroe",
     "Montgomery", "Chester", "Delaware"}
\* settings.cma_radius_miles = 1.0, in 1/1000 mile
CmaRadiusMiles == 1000
\* settings.cma_days_back
CmaDaysBack == 180
\* timedelta(days=3) of the freshness test, in days
ReportFreshDays == 3
\* .limit(50) of the candidates query
CandidateLimit == 50

\* sorted(s, key=.key): the sort of SortDesc with the oldest first
SortAsc(s) ==
    LET after(i) == {j \in 1..Len(s) : \/ s[j].key < s[i].key
                                       \/ s[j].key = s[i].key /\ j < i}
    IN  [r \in 1..Len(s) |->
            s[CHOOSE i \in 1..Len(s) : Cardinality(after(i)) = r - 1]]

\* sorted(s, key=.key, reverse=True) for a sequence of [key, value] records:
\* descending, elements with equal keys keep their order
SortDesc(s) ==
    LET before(i) == {j \in 1..Len(s) : \/ s[j].key > s[i].key
                                        \/ s[j].key = s[i].key /\ j < i}
    IN  [r \in 1..Len(s) |->
            s[CHOOSE i \in 1..Len(s) : Cardinality(before(i)) = r - 1]]

\* rank_listings(client, listings, limit): each candidate scored against the
\* client's preference vector, sorted by descending score with ties in
\* listing order, truncated to the limit
rank_listings(client, listings, limit, utcnow) ==
    LET prefs == from_client(client.preference_vector, utcnow.t)
        scored == [i \in 1..Len(listings) |->
                      [key |-> score_listing(
                                   vector_from_listing(listings[i], client.prefs,
                                                       utcnow.year),
                                   prefs),
                       value |-> listings[i]]]
        ranked == SortDesc(scored)
    IN  SubSeq(ranked, 1, Min(limit, Len(ranked)))

\* great-circle distances of the sites of the model, in 1/1000 mile, as
\* _haversine computes them (coordinates in 1/10000 degree)
SiteA == <<401215, 0 - 753399>>
SiteB == <<401260, 0 - 753350>>
SiteD == <<401600, 0 - 753000>>
HaversineMiles(p, q) ==
    IF p = q THEN 0
    ELSE IF {p, q} = {SiteA, SiteB} THEN 405
    ELSE IF {p, q} = {SiteA, SiteD} THEN 3394
    ELSE 2989

\* _haversine with a missing coordinate read as the subject's own site
_haversine_missing_as_zero(lat1, lon1, lat2, lon2) ==
    IF ~(Truthy(lat1) /\ Truthy(lon1) /\ Truthy(lat2) /\ Truthy(lon2)) THEN Some(0)
    ELSE Some(HaversineMiles(<<lat1[1], lon1[1]>>, <<lat2[1], lon2[1]>>))
\* _haversine: None when a coordinate is missing or 0
_haversine(lat1, lon1, lat2, lon2) ==
    IF ~(Truthy(lat1) /\ Truthy(lon1) /\ Truthy(lat2) /\ Truthy(lon2)) THEN None
    ELSE Some(HaversineMiles(<<lat1[1], lon1[1]>>, <<lat2[1], lon2[1]>>))

\* the candidates query of _select_comparables: filtered, newest
\* source_updated_at first (rows without one last), at most 50
Candidates(listings, subj) ==
    LET min_sqft == IF Truthy(subj.sqft) THEN (subj.sqft[1] * 4) \div 5 ELSE 0
        max_sqft == IF Truthy(subj.sqft) THEN (subj.sqft[1] * 6) \div 5 ELSE 0
        matches(l) ==
            /\ l.id # subj.id
            /\ l.standard_status \in {"Closed", "Sold", "Pending"}
            /\ l.property_type = subj.property_type
            /\ (min_sqft # 0 /\ max_sqft # 0)
                  => (l.sqft # None /\ l.sqft[1] >= min_sqft /\ l.sqft[1] <= max_sqft)
            /\ (subj.city # None /\ subj.city[1] # "") => l.city = subj.city
        filtered == SelectSeq(listings, matches)
        ordered == SortDesc([i \in 1..Len(filtered) |->
                                [key |-> IF filtered[i].source_updated_at = None
                                         THEN 0 - 1
                                         ELSE filtered[i].source_updated_at[1].t,
                                 value |-> filtered[i]]])
    IN  [i \in 1..Min(Len(ordered), CandidateLimit) |-> ordered[i].value]

\* _select_comparables, consumed by list(): the (listing, distance,
\* days_back) entries, or the TypeError of datetime.utcnow() - comparison_date
\* when the comparison date is timezone-aware, as every datetime loaded
\* through UTCDateTime is
_select_comparables(listings, subj, utcnow) ==
    LET candidates == Candidates(listings, subj)
        distance(l) == _haversine(subj.latitude, subj.longitude,
                                  l.latitude, l.longitude)
        near == SelectSeq(candidates,
                          LAMBDA l : distance(l) # None
                                     /\ distance(l)[1] <= CmaRadiusMiles)
        comparison_date(l) ==
            IF l.off_market_at # None THEN l.off_market_at
            ELSE IF l.source_updated_at # None THEN l.source_updated_at
            ELSE l.updated_at
    IN  IF \E i \in 1..Len(near) :
              comparison_date(near[i]) # None /\ comparison_date(near[i])[1].aware
        THEN [raised |-> "TypeError"]
        ELSE [raised |-> "",
              entries |->
                 [i \in 1..Len(near) |->
                     [listing |-> near[i],
                      distance |-> distance(near[i])[1],
                      days_back |->
                          IF comparison_date(near[i]) = None THEN CmaDaysBack
                          ELSE (utcnow.t - comparison_date(near[i])[1].t)
                                   \div HoursPerDay]]]

\* the CMAReports generated in the last 3 days, of any listing
RecentReportsOfAnyListing(cma_reports, listing_id, utcnow) ==
    LET fresh == SelectSeq(cma_reports, LAMBDA r :
                    r.generated_at >= utcnow.t - ReportFreshDays * HoursPerDay)
    IN  SortDesc([i \in 1..Len(fresh) |->
                     [key |-> fresh[i].generated_at, value |-> fresh[i]]])
\* the CMAReports of the listing generated in the last 3 days, most recent
\* first
RecentReports(cma_reports, listing_id, utcnow) ==
    LET fresh == SelectSeq(cma_reports, LAMBDA r :
                    /\ r.subject_listing_id = listing_id
                    /\ r.generated_at >= utcnow.t - ReportFreshDays * HoursPerDay)
    IN  SortDesc([i \in 1..Len(fresh) |->
                     [key |-> fresh[i].generated_at, value |-> fresh[i]]])

\* lines 157-180 of ensure_cma_report: the report, its comparable sales,
\* the market estimate of the listing and the deal alert are stored
StoreReport(tx, listing_id, result, report) ==
    [raised |-> "",
     report |-> report,
     tx |-> [tx EXCEPT
        !.cma_reports = Append(@, report),
        !.comparable_sales =
            @ \o [i \in 1..Len(result.comps) |->
                     [report_id |-> report.id,
                      subject_listing_id |-> listing_id,
                      comp_listing_id |-> result.comps[i].listing_id,
                      adjusted_price_cents |->
                          result.comps[i].adjusted_price_cents]],
        !.listings =
            [i \in 1..Len(@) |->
                IF @[i].id = listing_id
                THEN [@[i] EXCEPT
                         !.market_estimate_cents = Some(result.price_mid_cents)]
                ELSE @[i]],
        !.deal_alerts =
            IF result.deal_alert = None THEN @
            ELSE Append(@, [listing_id |-> listing_id,
                            source_report_id |-> report.id,
                            payload |-> result.deal_alert[1]])]]

\* ensure_cma_report once compute_cma has returned result or raised
ReportValued(tx, listing_id, utcnow, result) ==
    IF result.status = "ValueError" THEN [raised |-> "ValueError"]
    ELSE StoreReport(tx, listing_id, result,
                     [id |-> Len(tx.cma_reports) + 1,
                      subject_listing_id |-> listing_id,
                      price_low_cents |-> result.price_low_cents,
                      price_mid_cents |-> result.price_mid_cents,
                      price_high_cents |-> result.price_high_cents,
                      confidence |-> result.confidence,
                      generated_at |-> utcnow.t])

\* ensure_cma_report once _select_comparables has returned or raised
ReportSelected(tx, listing, utcnow, selected) ==
    IF selected.raised # "" THEN [raised |-> selected.raised]
    ELSE ReportValued(tx, listing.id, utcnow,
                      compute_cma(listing, selected.entries))

\* ensure_cma_report on the transaction tx (the rows as the Session sees
\* them): the error raised, or the transaction afterwards and the report
ensure_cma_report(tx, listing_id, utcnow) ==
    LET listing == SelectSeq(tx.listings, LAMBDA l : l.id = listing_id)[1]
        recent == RecentReports(tx.cma_reports, listing_id, utcnow)
    IN  IF recent # <<>>
        THEN [raised |-> "", tx |-> tx, report |-> recent[1].value]
        ELSE ReportSelected(tx, listing, utcnow,
                            _select_comparables(tx.listings, listing, utcnow))

\* the loop of generate_client_digest over the recommendations;
\* ContextAppended is its body once ensure_cma_report has returned or raised
RECURSIVE ListingContexts(_, _, _, _)
RECURSIVE ContextAppended(_, _, _, _, _)
ContextAppended(tx, recommendations, contexts, utcnow, ensured) ==
    IF ensured.raised # ""
    THEN [raised |-> ensured.raised, tx |-> tx,
          listing_id |-> recommendations[1].value.id]
    ELSE ListingContexts(
             ensured.tx, Tail(recommendations),
             Append(contexts,
                    [listing_id |-> recommendations[1].value.id,
                     cma_low_cents |-> ensured.report.price_low_cents,
                     cma_high_cents |-> ensured.report.price_high_cents,
                     cma_confidence |-> ensured.report.confidence]),
             utcnow)
ListingContexts(tx, recommendations, contexts, utcnow) ==
    IF recommendations = <<>>
    THEN [raised |-> "", tx |-> tx, contexts |-> contexts]
    ELSE ContextAppended(tx, recommendations, contexts, utcnow,
                         ensure_cma_report(tx, recommendations[1].value.id,
                                           utcnow))

\* the listings a digest may recommend
DigestCandidates(listings) ==
    SelectSeq(listings, LAMBDA l : /\ l.standard_status \in AllowedStatuses
                                   /\ l.county # None
                                   /\ l.county[1] \in ApprovedCounties)

\* lines 84-123 of generate_client_digest: the draft is added once the loop
\* over the recommendations has completed
DraftAdded(client, built) ==
    IF built.raised # "" THEN built
    ELSE [raised |-> "",
          tx |-> [built.tx EXCEPT
             !.drafts = Append(@, [client_id |-> client.id,
                                   channel |-> "email",
                                   status |-> "pending_approval",
                                   listings_context |-> built.contexts])]]

\* generate_client_digest once rank_listings has returned
DigestRanked(tx, client, utcnow, recommendations) ==
    IF recommendations = <<>> THEN [raised |-> "", tx |-> tx]
    ELSE DraftAdded(client, ListingContexts(tx, recommendations, <<>>, utcnow))

\* generate_client_digest: the error raised, or the transaction afterwards
generate_client_digest(tx, client, limit, utcnow) ==
    DigestRanked(tx, client, utcnow,
                 rank_listings(client, DigestCandidates(tx.listings),
                               limit, utcnow))

\* the loop of run_daily_digests over the clients; DigestMade is its body
\* once generate_client_digest has returned or raised
RECURSIVE ClientDigests(_, _, _, _)
RECURSIVE DigestMade(_, _, _, _)
DigestMade(clients, limit, utcnow, made) ==
    IF made.raised # ""
    THEN [raised |-> made.raised, tx |-> made.tx,
          client_id |-> clients[1].id, listing_id |-> made.listing_id]
    ELSE ClientDigests(made.tx, Tail(clients), limit, utcnow)
ClientDigests(tx, clients, limit, utcnow) ==
    IF clients = <<>> THEN [raised |-> "", tx |-> tx]
    ELSE DigestMade(clients, limit, utcnow,
                    generate_client_digest(tx, clients[1], limit, utcnow))

\* run_daily_digests inside its `with session_scope()`: the error that
\* leaves the block before line 64, or the transaction line 64 commits
run_daily_digests(database, limit, utcnow) ==
    ClientDigests(database, database.clients, limit, utcnow)

----------------------------------------------------------------------------
(* Inputs of the valuation runs *)

\* longest comparable list handed to compute_cma
MaxComparables == 3

BoundedSeq(S, n) == UNION {[1..k -> S] : k \in 0..n}

BaseListing ==
    [id |-> "L0",
     list_price_cents |-> Some(4500000), close_price_cents |-> None,
     market_estimate_cents |-> None,
     beds |-> Some(3), baths |-> Some(2), sqft |-> Some(2000),
     lot_sqft |-> Some(6000), year_built |-> Some(1990),
     parking_spaces |-> Some(1), hoa_fee_cents |-> None,
     days_on_market |-> Some(45),
     amenities |-> <<>>, features |-> {}, condition_notes |-> <<>>]

CmaComparableListings ==
    { [BaseListing EXCEPT !.id = "C1", !.close_price_cents = Some(4400000)],
      [BaseListing EXCEPT !.id = "C2", !.close_price_cents = Some(4550000),
                          !.sqft = Some(1900)],
      [BaseListing EXCEPT !.id = "C3", !.close_price_cents = Some(4650000),
                          !.beds = Some(4)],
      \* no price at all
      [BaseListing EXCEPT !.id = "C4", !.list_price_cents = None],
      \* a zero close price and no list price
      [BaseListing EXCEPT !.id = "C5", !.close_price_cents = Some(0),
                          !.list_price_cents = None,
                          !.days_on_market = Some(400)],
      \* list price only, and adjustments larger than the price
      [BaseListing EXCEPT !.id = "C6", !.list_price_cents = Some(1000000),
                          !.beds = Some(5), !.baths = Some(3)],
      \* a price and no attribute
      [BaseListing EXCEPT !.id = "C7", !.close_price_cents = Some(4000000),
                          !.beds = None, !.baths = None, !.sqft = None,
                          !.lot_sqft = None, !.year_built = None,
                          !.parking_spaces = None, !.days_on_market = None],
      [BaseListing EXCEPT !.id = "C8", !.close_price_cents = Some(3600000),
                          !.sqft = Some(1000), !.lot_sqft = Some(10000),
                          !.year_built = Some(2010), !.parking_spaces = Some(0),
                          !.features = {"pool"},
                          !.days_on_market = Some(400)] }

\* each comparable with the distance (1/1000 mile) and days_back of its entry
CmaEntries ==
    { [listing |-> c,
       distance |-> IF c.id \in {"C1", "C4", "C7"} THEN 400 ELSE 600,
       days_back |-> IF c.id \in {"C1", "C2", "C5"} THEN 45 ELSE 25]
      : c \in CmaComparableListings }

CmaSubjects ==
    { [BaseListing EXCEPT !.id = "S1", !.list_price_cents = Some(3200000)],
      [BaseListing EXCEPT !.id = "S2", !.list_price_cents = Some(4000000)],
      [BaseListing EXCEPT !.id = "S3", !.list_price_cents = None],
      [BaseListing EXCEPT !.id = "S4", !.list_price_cents = Some(0)],
      [BaseListing EXCEPT !.id = "S5", !.list_price_cents = Some(0 - 100)],
      [BaseListing EXCEPT !.id = "S6", !.list_price_cents = Some(3200000),
                          !.condition_notes = [structural |-> TRUE]],
      [BaseListing EXCEPT !.id = "S7", !.list_price_cents = Some(3200000),
                          !.condition_notes =
                              [structural |-> FALSE, cosmetic |-> TRUE]],
      \* exactly 0.8 of a 4,400,000 estimate
      [BaseListing EXCEPT !.id = "S8", !.list_price_cents = Some(3520000)],
      [BaseListing EXCEPT !.id = "S9", !.list_price_cents = Some(3200000),
                          !.beds = None, !.baths = None, !.sqft = None,
                          !.lot_sqft = None, !.year_built = None,
                          !.parking_spaces = None,
                          !.amenities = [pool |-> TRUE]],
      [BaseListing EXCEPT !.id = "S10", !.list_price_cents = Some(1000000),
                          !.beds = Some(1), !.baths = Some(1),
                          !.condition_notes = [mechanical |-> TRUE]] }

----------------------------------------------------------------------------
(* SpecCma: compute_cma applied to every subject and comparable list *)

\* the state of the variables a specification leaves alone
IdleCma ==
    /\ subject = BaseListing
    /\ comparables = <<>>
    /\ cma = [status |-> "none"]
IdlePrefs ==
    /\ clock = [t |-> 0, year |-> 2024]
    /\ preference = EmptyPreferences(0)
    /\ history = <<>>
IdleApi ==
    /\ db = EmptyDb
    /\ requests = <<>>
IdleBatch ==
    /\ digest = [status |-> "none"]
    /\ reportCalls = <<>>

InitCma ==
    /\ subject \in CmaSubjects
    /\ comparables \in BoundedSeq(CmaEntries, MaxComparables)
    /\ cma = [status |-> "none"]
    /\ IdlePrefs
    /\ IdleApi
    /\ IdleBatch

ComputeCma ==
    /\ cma.status = "none"
    /\ cma' = compute_cma(subject, comparables)
    /\ UNCHANGED <<subject, comparables>>
    /\ UNCHANGED prefVars
    /\ UNCHANGED apiVars
    /\ UNCHANGED batchVars

NextCma == ComputeCma

SpecCma == InitCma /\ [][NextCma]_vars

----------------------------------------------------------------------------
(* SpecPrefs: feedback calls on one PreferenceVector *)

\* number of calls made on the PreferenceVector
MaxCalls == 2

\* the year of the clock in the preference runs
PrefYear == 2024

\* listings of the preference runs; prices are a few dollars so that the
\* squares of the weights stay within TLC's 32-bit integers
PrefListings ==
    { \* the listing of tests/test_preferences.py
      [BaseListing EXCEPT !.id = "P1", !.list_price_cents = Some(200),
                          !.sqft = Some(1800), !.lot_sqft = Some(5000),
                          !.year_built = Some(1992), !.parking_spaces = None,
                          !.days_on_market = None,
                          !.amenities = [garage |-> TRUE, walkscore |-> 70]],
      \* nothing known but a construction year of 1950
      [BaseListing EXCEPT !.id = "P2", !.list_price_cents = None,
                          !.beds = None, !.baths = None, !.sqft = None,
                          !.lot_sqft = None, !.year_built = Some(1950),
                          !.parking_spaces = None, !.days_on_market = None],
      [BaseListing EXCEPT !.id = "P3", !.list_price_cents = None,
                          !.market_estimate_cents = Some(300),
                          !.beds = Some(4), !.sqft = Some(2000),
                          !.lot_sqft = Some(10000), !.year_built = Some(2023),
                          !.parking_spaces = Some(2),
                          !.hoa_fee_cents = Some(5000),
                          !.days_on_market = Some(30),
                          !.amenities = [pool |-> TRUE, walkscore |-> 40],
                          !.features = {"waterfront", "open_floorplan"}] }

\* the same listings as the rows of the listings table
PrefListingRows ==
    LET ids == <<"P1", "P2", "P3">>
    IN  [i \in 1..Len(ids) |-> CHOOSE l \in PrefListings : l.id = ids[i]]

\* the feature vectors handed to apply_feedback and score_listing: those of
\* the listings, the empty vector and a vector with two keys only
FeatureVectors ==
    {vector_from_listing(l, <<>>, PrefYear) : l \in PrefListings}
    \cup {vector_from_listing(l, [price_min |-> 1, price_max |-> 3], PrefYear) :
             l \in {x \in PrefListings : x.id = "P2"}}
    \cup { [numeric |-> <<>>, tags |-> <<>>],
           [numeric |-> [sqft |-> <<9, 20>>], tags |-> [has_pool |-> <<1, 1>>]] }

\* the (signal_strength, learning_rate) arguments of the feedback calls: the
\* rate is absent, 0 or 0.5
FeedbackArguments ==
    { <<<<1, 1>>, None>>, <<<<0 - 1, 1>>, None>>, <<<<2, 1>>, None>>,
      <<<<1, 1>>, Some(<<0, 1>>)>>, <<<<0 - 1, 1>>, Some(<<1, 2>>)>> }

InitPrefs ==
    /\ clock = [t |-> 0, year |-> PrefYear]
    /\ preference = EmptyPreferences(clock.t)
    /\ history = <<>>
    /\ IdleCma
    /\ IdleApi
    /\ IdleBatch

\* apply_feedback(prefs, vector, signal, lr): prefs is updated in place
ApplyFeedback(vector, signal_strength, learning_rate) ==
    /\ Len(history) < MaxCalls
    /\ preference' = apply_feedback(preference, vector, signal_strength,
                                    learning_rate, clock.t)
    /\ history' = Append(history,
                         [op |-> "apply_feedback", vector |-> vector,
                          signal_strength |-> signal_strength,
                          learning_rate |-> learning_rate, before |-> preference])
    /\ UNCHANGED clock
    /\ UNCHANGED cmaVars
    /\ UNCHANGED apiVars
    /\ UNCHANGED batchVars

NextPrefs ==
    \E vector \in FeatureVectors, arguments \in FeedbackArguments :
        ApplyFeedback(vector, arguments[1], arguments[2])

SpecPrefs == InitPrefs /\ [][NextPrefs]_vars

----------------------------------------------------------------------------
(* SpecStored: a persisted preference_vector is read with from_client and *)
(* the PreferenceVector is aged with decay_preferences                    *)

\* number of decay_preferences calls on the PreferenceVector
MaxDecays == 2

\* the instant of the run, in hours
StoredClock == [t |-> 6000, year |-> PrefYear]

\* the instants at which the persisted vectors were written: 1 day, exactly
\* 45 days, 45 days and 1 hour, 50 days, 144 days (factor exactly 0.2) and
\* 200 days before the run, and one hour after it
StoredInstants == <<5976, 4920, 4919, 4800, 2544, 1200, 6001>>

StoredNumeric == [sqft |-> <<9, 20>>, beds |-> <<0 - 3, 1>>, price |-> <<0, 1>>]
StoredTags == [has_pool |-> <<1, 4>>]

\* the values of clients.preference_vector: written by as_dict at one of the
\* instants, missing, or malformed
PersistedValues ==
    [i \in 1..Len(StoredInstants) |->
        as_dict([numeric |-> StoredNumeric, tags |-> StoredTags,
                 updated_at |-> StoredInstants[i]])]
    \o << <<>>,
          [kind |-> "null"], [kind |-> "zero"], [kind |-> "empty_list"],
          [kind |-> "number"], [kind |-> "text"], [kind |-> "list"],
          [numeric |-> StoredNumeric],
          [tags |-> StoredTags, updated_at |-> IsoFormat(1200)],
          [numeric |-> [kind |-> "null"], tags |-> StoredTags],
          [numeric |-> StoredNumeric, tags |-> [kind |-> "number"]],
          [numeric |-> [kind |-> "text"]],
          [numeric |-> [kind |-> "list"], tags |-> StoredTags],
          [numeric |-> [kind |-> "empty_list"], tags |-> StoredTags],
          [numeric |-> StoredNumeric, tags |-> StoredTags,
           updated_at |-> [kind |-> "text"]],
          [numeric |-> StoredNumeric, tags |-> StoredTags,
           updated_at |-> [kind |-> "empty_text"]],
          [numeric |-> StoredNumeric, tags |-> StoredTags,
           updated_at |-> [kind |-> "null"]],
          [numeric |-> StoredNumeric, tags |-> StoredTags,
           updated_at |-> [kind |-> "number"]],
          [numeric |-> StoredNumeric, tags |-> StoredTags,
           updated_at |-> [kind |-> "list"]] >>

\* the `now` arguments of decay_preferences: absent, or an instant
DecayInstants == {None, Some(6001), Some(7081), Some(9456), Some(12000)}

InitStored ==
    /\ clock = StoredClock
    /\ preference = EmptyPreferences(0)
    /\ history = <<>>
    /\ IdleCma
    /\ IdleApi
    /\ IdleBatch

\* PreferenceVector.from_client(client) on the persisted value raw
FromClient(raw) ==
    /\ history = <<>>
    /\ preference' = IF from_client_raised(raw) = ""
                     THEN from_client(raw, clock.t) ELSE preference
    /\ history' = <<[op |-> "from_client", raw |-> raw,
                     raised |-> from_client_raised(raw),
                     before |-> preference]>>
    /\ UNCHANGED clock
    /\ UNCHANGED cmaVars
    /\ UNCHANGED apiVars
    /\ UNCHANGED batchVars

\* decay_preferences(prefs, now): prefs is updated in place
DecayPreferences(now) ==
    /\ history # <<>>
    /\ history[1].raised = ""
    /\ Len(history) <= MaxDecays
    /\ \E at \in {IF now = None THEN clock.t ELSE now[1]} :
          /\ preference' = decay_preferences(preference, at)
          /\ history' = Append(history,
                               [op |-> "decay_preferences", now |-> at,
                                raised |-> "", before |-> preference])
    /\ UNCHANGED clock
    /\ UNCHANGED cmaVars
    /\ UNCHANGED apiVars
    /\ UNCHANGED batchVars

NextStored ==
    \/ \E i \in 1..Len(PersistedValues) : FromClient(PersistedValues[i])
    \/ \E now \in DecayInstants : DecayPreferences(now)

SpecStored == InitStored /\ [][NextStored]_vars

----------------------------------------------------------------------------
(* SpecVector: vector_from_listing called on listings and explicit *)
(* preferences, in the year of the run or in a later one           *)

\* number of vector_from_listing calls
MaxVectorCalls == 2
\* number of new years the clock passes
MaxNewYears == 1
HoursPerYear == 8760

\* the listings vectorized: those of the preference runs, a listing of which
\* nothing is known, and one built three years before the run
VectorListings ==
    PrefListings
    \cup { [BaseListing EXCEPT !.id = "P4", !.list_price_cents = None,
                               !.beds = None, !.baths = None, !.sqft = None,
                               !.lot_sqft = None, !.year_built = None,
                               !.parking_spaces = None,
                               !.days_on_market = None],
           [BaseListing EXCEPT !.id = "P5", !.list_price_cents = Some(300),
                               !.year_built = Some(PrefYear - 3)] }

\* the explicit preferences (client.prefs), prices in dollars: none, both
\* bounds, a bound of 0, a [min, max] band
ExplicitPreferences ==
    << <<>>,
       [price_min |-> 1, price_max |-> 3],
       [price_min |-> 0, price_max |-> 4],
       [price |-> <<2, 6>>] >>

InitVector ==
    /\ clock = [t |-> 0, year |-> PrefYear]
    /\ preference = EmptyPreferences(0)
    /\ history = <<>>
    /\ IdleCma
    /\ IdleApi
    /\ IdleBatch

\* vector_from_listing(listing, explicit_prefs): the arguments are read only
VectorFromListing(listing, explicit_prefs) ==
    /\ Len(history) < MaxVectorCalls
    /\ history' = Append(history,
                         [op |-> "vector_from_listing",
                          listing |-> listing,
                          explicit_prefs |-> explicit_prefs,
                          year |-> clock.year,
                          vector |-> vector_from_listing(listing, explicit_prefs,
                                                         clock.year)])
    /\ UNCHANGED <<clock, preference>>
    /\ UNCHANGED cmaVars
    /\ UNCHANGED apiVars
    /\ UNCHANGED batchVars

\* the new year passes: datetime.utcnow().year is one more
NewYear ==
    /\ clock.year < PrefYear + MaxNewYears
    /\ clock' = [t |-> clock.t + HoursPerYear, year |-> clock.year + 1]
    /\ UNCHANGED <<preference, history>>
    /\ UNCHANGED cmaVars
    /\ UNCHANGED apiVars
    /\ UNCHANGED batchVars

NextVector ==
    \/ \E listing \in VectorListings, i \in 1..Len(ExplicitPreferences) :
          VectorFromListing(listing, ExplicitPreferences[i])
    \/ NewYear

SpecVector == InitVector /\ [][NextVector]_vars

----------------------------------------------------------------------------
(* SpecRetrain: two POST /clients/{id}/retrain requests served concurrently, *)
(* each handler call with a Session of its own                               *)

\* number of concurrent requests
MaxRequests == 2
RequestIds == 1..MaxRequests

\* the instant of the run: 50 days after the stored vector was written
RetrainClock == [t |-> 1200, year |-> PrefYear]

\* a preference vector as persisted 50 days before: as_dict after one feedback
TrainedVector ==
    as_dict(apply_feedback(EmptyPreferences(0),
                           [numeric |-> [sqft |-> <<1, 2>>, beds |-> <<3, 1>>],
                            tags |-> [has_pool |-> <<1, 1>>]],
                           <<1, 1>>, None, 0))

\* the interactions table: empty, a note without listing, a like of P1
StoredInteractions ==
    { <<>>,
      <<[client_id |-> "A", listing_id |-> None]>>,
      <<[client_id |-> "A", listing_id |-> Some("P1")]>> }

\* request.interactions
RequestInteractions ==
    { <<>>,
      <<[listing_id |-> "P1", signal |-> <<1, 1>>]>>,
      <<[listing_id |-> "P3", signal |-> <<0 - 1, 1>>]>>,
      <<[listing_id |-> "P9", signal |-> <<1, 1>>],
        [listing_id |-> "P3"], [signal |-> <<1, 1>>],
        [listing_id |-> "P1", signal |-> <<2, 1>>]>> }

InitRetrain ==
    /\ \E stored \in {<<>>, TrainedVector}, rows \in StoredInteractions :
          db = [EmptyDb EXCEPT
                   !.clients = <<[id |-> "A", prefs |-> <<>>,
                                  preference_vector |-> stored]>>,
                   !.interactions = rows,
                   !.listings = PrefListingRows]
    /\ requests \in [RequestIds ->
                        [client_id : {"A", "Z"},
                         interactions : RequestInteractions,
                         pc : {"start"}, loaded : {<<>>}, snapshot : {0}]]
    /\ requests[1].client_id = "A"
    /\ clock = RetrainClock
    /\ preference = EmptyPreferences(0)
    /\ history = <<>>
    /\ IdleCma
    /\ IdleBatch

\* lines 242-244: no Client row with the id, HTTP 404
RetrainNotFound(r) ==
    /\ requests[r].pc = "start"
    /\ ClientRows(db.clients, requests[r].client_id) = <<>>
    /\ requests' = [requests EXCEPT ![r].pc = "HTTP 404"]
    /\ UNCHANGED db

\* lines 242-268: the queries; the Session keeps the rows as read
RetrainLoad(r) ==
    /\ requests[r].pc = "start"
    /\ ClientRows(db.clients, requests[r].client_id) # <<>>
    /\ requests' = [requests EXCEPT
          ![r].pc = "loaded",
          ![r].loaded = [client |-> ClientRows(db.clients, requests[r].client_id)[1],
                         rows |-> InteractionRows(db.interactions,
                                                  requests[r].client_id),
                         listings |-> db.listings]]
    /\ UNCHANGED db

\* lines 252-257: the payload of a stored row raises, nothing is written
RetrainRaise(r) ==
    /\ requests[r].pc = "loaded"
    /\ LET loaded == requests[r].loaded
       IN  retrain(loaded.client, loaded.rows, loaded.listings,
                   requests[r].interactions, clock).raised
    /\ requests' = [requests EXCEPT ![r].pc = "AttributeError"]
    /\ UNCHANGED db

\* lines 270-277: retrain_preferences on the loaded Client, the snapshot,
\* and db.commit() writing the Client's vector and the snapshot
RetrainCommit(r) ==
    /\ requests[r].pc = "loaded"
    /\ LET loaded == requests[r].loaded
           result == retrain(loaded.client, loaded.rows, loaded.listings,
                             requests[r].interactions, clock)
           vector == as_dict(result.prefs)
       IN  /\ ~result.raised
           /\ db' = [db EXCEPT
                 !.clients = [i \in 1..Len(db.clients) |->
                                 IF db.clients[i].id = loaded.client.id
                                 THEN [db.clients[i] EXCEPT
                                          !.preference_vector = vector]
                                 ELSE db.clients[i]],
                 !.snapshots = Append(db.snapshots,
                                      [client_id |-> loaded.client.id,
                                       vector |-> vector,
                                       reason |-> "manual-retrain"])]
           /\ requests' = [requests EXCEPT ![r].pc = "done",
                                           ![r].snapshot = Len(db.snapshots) + 1]

NextRetrain ==
    /\ \E r \in RequestIds :
          \/ RetrainNotFound(r)
          \/ RetrainLoad(r)
          \/ RetrainRaise(r)
          \/ RetrainCommit(r)
    /\ UNCHANGED cmaVars
    /\ UNCHANGED prefVars
    /\ UNCHANGED batchVars

SpecRetrain == InitRetrain /\ [][NextRetrain]_vars

----------------------------------------------------------------------------
(* SpecDigest: run_daily_digests on a database of clients, listings and *)
(* CMA reports                                                          *)

\* most clients in the clients table
MaxClients == 3

\* the instant of the batch
DigestClock == [t |-> 2400, year |-> PrefYear]

\* a datetime column read back through UTCDateTime: timezone-aware
Loaded(t) == Some([t |-> t, aware |-> TRUE])

\* a Listing row: the columns of BaseListing and those the batch reads
BaseRow ==
    BaseListing @@
    [standard_status |-> "Active", county |-> Some("Montgomery"),
     property_type |-> Some("Residential"), city |-> Some("Norristown"),
     latitude |-> Some(SiteA[1]), longitude |-> Some(SiteA[2]),
     source_updated_at |-> Loaded(2000), off_market_at |-> None,
     updated_at |-> Loaded(2000)]

\* on the market in Norristown
ListingA1 ==
    [BaseRow EXCEPT !.id = "A1", !.list_price_cents = Some(3200000)]
\* on the market in Pottsville, where nothing has sold
ListingA2 ==
    [BaseRow EXCEPT !.id = "A2", !.list_price_cents = Some(3000000),
                    !.county = Some("Schuylkill"), !.city = Some("Pottsville"),
                    !.latitude = Some(SiteD[1]), !.longitude = Some(SiteD[2]),
                    !.beds = Some(5), !.sqft = Some(3000),
                    !.parking_spaces = None,
                    !.amenities = [pool |-> TRUE]]
\* on the market in a county that is not approved
ListingA3 ==
    [BaseRow EXCEPT !.id = "A3", !.county = Some("Bucks")]
\* sold in Norristown, 0.4 mile from A1
ListingK1 ==
    [BaseRow EXCEPT !.id = "K1", !.standard_status = "Closed",
                    !.list_price_cents = None,
                    !.close_price_cents = Some(4400000),
                    !.latitude = Some(SiteB[1]), !.longitude = Some(SiteB[2]),
                    !.off_market_at = Loaded(1500)]

\* a preference vector as persisted: all the weight on one tag
TagVector(tag) ==
    as_dict([numeric |-> <<>>, tags |-> [k \in {tag} |-> <<1, 4>>],
             updated_at |-> DigestClock.t])

\* a client who wants a garage (only A1 has one), one who wants a pool (only
\* A2 has one), one without history
DigestClients ==
    { [id |-> "X", prefs |-> [price_min |-> 1, price_max |-> 3],
       preference_vector |-> TagVector("has_garage")],
      [id |-> "Y", prefs |-> <<>>, preference_vector |-> TagVector("has_pool")],
      [id |-> "W", prefs |-> <<>>, preference_vector |-> <<>>] }

\* sequences without repetition, of length 1 to n
Arrangements(S, n) ==
    {q \in BoundedSeq(S, n) :
        /\ q # <<>>
        /\ \A i, j \in 1..Len(q) : i # j => q[i] # q[j]}

\* a CMAReport row generated at instant t
ReportRow(id, listing_id, t) ==
    [id |-> id, subject_listing_id |-> listing_id,
     price_low_cents |-> 4100000, price_mid_cents |-> 4400000,
     price_high_cents |-> 4700000, confidence |-> 60, generated_at |-> t]

\* the cma_reports table: per listing no report, a report of yesterday, or
\* one of five days ago
ReportTables ==
    { SelectSeq(<<ReportRow(1, "A1", DigestClock.t - a1),
                  ReportRow(2, "A2", DigestClock.t - a2)>>,
                LAMBDA r : r.generated_at < DigestClock.t)
      : a1 \in {0, 24}, a2 \in {0, 24, 120} }

InitDigest ==
    /\ \E clients \in Arrangements(DigestClients, MaxClients),
          sold \in {<<>>, <<ListingK1>>},
          cma_reports \in ReportTables :
          db = [EmptyDb EXCEPT
                   !.clients = clients,
                   !.listings = <<ListingA1, ListingA2, ListingA3>> \o sold,
                   !.cma_reports = cma_reports]
    /\ digest = [status |-> "none"]
    /\ reportCalls = <<>>
    /\ requests = <<>>
    /\ clock = DigestClock
    /\ preference = EmptyPreferences(0)
    /\ history = <<>>
    /\ IdleCma

\* run_daily_digests(limit).  When the loop completes, line 64 commits the
\* transaction.  When an error leaves the `with` block, line 64 is not
\* reached; core.storage.db does not define session_scope, so whether its
\* exit keeps (exit_commits) or discards what was flushed is left open.
RunDailyDigests(limit, exit_commits) ==
    /\ digest.status = "none"
    /\ \E run \in {run_daily_digests(db, limit, clock)} :
           IF run.raised = ""
           THEN /\ db' = run.tx
                /\ digest' = [status |-> "committed", limit |-> limit,
                              before |-> db]
           ELSE /\ db' = IF exit_commits THEN run.tx ELSE db
                /\ digest' = [status |-> run.raised, limit |-> limit,
                              before |-> db,
                              client_id |-> run.client_id,
                              listing_id |-> run.listing_id]
    /\ UNCHANGED <<requests, reportCalls>>
    /\ UNCHANGED cmaVars
    /\ UNCHANGED prefVars

NextDigest ==
    \E limit \in {1, 2, 5}, exit_commits \in BOOLEAN :
        RunDailyDigests(limit, exit_commits)

SpecDigest == InitDigest /\ [][NextDigest]_vars

----------------------------------------------------------------------------
(* SpecReport: ensure_cma_report and _select_comparables on a Session whose
   listings table holds the subject and a pool of other listings *)

\* most calls in one behaviour
MaxReportCalls == 2

\* the instant of the calls
ReportClock == [t |-> 2400, year |-> PrefYear]

\* a datetime attribute as assigned in this Session (datetime.utcnow() of
\* upsert_listing and of the column defaults): naive until the row is reloaded
Naive(t) == Some([t |-> t, aware |-> FALSE])

\* a sold listing 0.4 mile from the subject, persisted in this Session
SoldRow ==
    [BaseRow EXCEPT !.id = "K1", !.standard_status = "Closed",
                    !.list_price_cents = None,
                    !.close_price_cents = Some(4400000),
                    !.latitude = Some(SiteB[1]), !.longitude = Some(SiteB[2]),
                    !.source_updated_at = Naive(1400),
                    !.off_market_at = Naive(1400),
                    !.updated_at = Naive(1400)]

\* the listing the report is for
ReportSubjects ==
    LET S == [BaseRow EXCEPT !.id = "S", !.source_updated_at = Naive(2300),
                             !.updated_at = Naive(2300)]
    IN  { S,
          [S EXCEPT !.sqft = Some(1999)],
          [S EXCEPT !.sqft = Some(1)],
          [S EXCEPT !.sqft = None],
          [S EXCEPT !.city = None],
          [S EXCEPT !.latitude = None],
          \* itself among the sold listings
          [S EXCEPT !.standard_status = "Closed",
                    !.close_price_cents = Some(4300000)] }

\* the other listings, one per filter of _select_comparables
VariedPool ==
    << SoldRow,
       [SoldRow EXCEPT !.id = "K2", !.standard_status = "Pending",
                       !.sqft = Some(1599), !.close_price_cents = Some(4000000)],
       [SoldRow EXCEPT !.id = "K3", !.property_type = Some("Condominium")],
       [SoldRow EXCEPT !.id = "K4", !.standard_status = "Active"],
       [SoldRow EXCEPT !.id = "K5", !.city = Some("Pottsville"),
                       !.standard_status = "Sold"],
       [SoldRow EXCEPT !.id = "K6", !.latitude = None],
       [SoldRow EXCEPT !.id = "K7", !.latitude = Some(SiteD[1]),
                       !.longitude = Some(SiteD[2])],
       [SoldRow EXCEPT !.id = "K9", !.sqft = None],
       [SoldRow EXCEPT !.id = "K10", !.sqft = Some(5000),
                       !.close_price_cents = Some(9900000)] >>

\* a sold listing read back from the database: its datetimes are aware
LoadedRow ==
    [SoldRow EXCEPT !.id = "K8", !.source_updated_at = Loaded(1300),
                    !.off_market_at = Loaded(1300), !.updated_at = Loaded(1300)]

\* n sold listings of the subject's city, type and size, 3.4 miles away, each
\* updated after SoldRow
Fillers(n) ==
    [i \in 1..n |->
        [SoldRow EXCEPT !.id = "F" \o ToString(i),
                        !.latitude = Some(SiteD[1]), !.longitude = Some(SiteD[2]),
                        !.source_updated_at = Naive(2000 + i),
                        !.off_market_at = None,
                        !.updated_at = Naive(2000 + i)]]

ReportPools ==
    { <<>>,
      VariedPool,
      VariedPool \o <<LoadedRow>>,
      <<VariedPool[3]>>,
      Fillers(CandidateLimit) \o <<SoldRow>>,
      Fillers(CandidateLimit - 1) \o <<SoldRow>> }

\* the cma_reports table: no report of the subject, one of yesterday, one of
\* exactly three days ago, one an hour older, or two fresh ones
SubjectReports ==
    { <<>>,
      <<ReportRow(1, "S", ReportClock.t - 24)>>,
      <<ReportRow(1, "S", ReportClock.t - ReportFreshDays * HoursPerDay)>>,
      <<ReportRow(1, "S", ReportClock.t - ReportFreshDays * HoursPerDay - 1)>>,
      <<ReportRow(1, "S", ReportClock.t - 24),
        ReportRow(2, "S", ReportClock.t - 48),
        ReportRow(3, "K1", ReportClock.t - 1)>> }

InitReport ==
    /\ \E subj \in ReportSubjects, pool \in ReportPools,
          cma_reports \in SubjectReports :
          db = [EmptyDb EXCEPT !.listings = <<subj>> \o pool,
                               !.cma_reports = cma_reports]
    /\ reportCalls = <<>>
    /\ digest = [status |-> "none"]
    /\ requests = <<>>
    /\ clock = ReportClock
    /\ preference = EmptyPreferences(0)
    /\ history = <<>>
    /\ IdleCma

\* the row of the listings table with the id
ListingRow(rows, listing_id) ==
    SelectSeq(rows, LAMBDA l : l.id = listing_id)[1]

\* list(_select_comparables(session, subject)): reads only
SelectComparables(listing_id) ==
    /\ Len(reportCalls) < MaxReportCalls
    /\ \E selected \in {_select_comparables(db.listings,
                                            ListingRow(db.listings, listing_id),
                                            clock)} :
           reportCalls' = Append(reportCalls,
                                 [op |-> "_select_comparables",
                                  listing_id |-> listing_id,
                                  before |-> db, selected |-> selected])
    /\ UNCHANGED <<db, requests, digest>>
    /\ UNCHANGED cmaVars
    /\ UNCHANGED prefVars

\* ensure_cma_report(session, listing) and the commit of its caller; an error
\* is raised before anything is added to the Session
EnsureCmaReport(listing_id) ==
    /\ Len(reportCalls) < MaxReportCalls
    /\ \E run \in {ensure_cma_report(db, listing_id, clock)} :
           /\ db' = IF run.raised = "" THEN run.tx ELSE db
           /\ reportCalls' = Append(reportCalls,
                                    [op |-> "ensure_cma_report",
                                     listing_id |-> listing_id,
                                     before |-> db, run |-> run])
    /\ UNCHANGED <<requests, digest>>
    /\ UNCHANGED cmaVars
    /\ UNCHANGED prefVars

NextReport ==
    \/ SelectComparables("S")
    \/ EnsureCmaReport("S")

SpecReport == InitReport /\ [][NextReport]_vars

----------------------------------------------------------------------------
(* SpecApprove: POST /clients/{id}/drafts/{id}/send requests served
   concurrently, each handler call with a Session of its own *)

\* most clock ticks while the requests are served
MaxTicks == 1

\* the instant the first request arrives
ApproveClock == [t |-> 3000, year |-> PrefYear]

\* the draft_messages table: a draft of client A in any status, one of
\* client B awaiting approval
DraftTables ==
    { << [id |-> "D1", client_id |-> "A", status |-> st,
          sent_at |-> IF st \in {"approved", "sent"} THEN Some(2900) ELSE None],
         [id |-> "D2", client_id |-> "B", status |-> "pending_approval",
          sent_at |-> None] >>
      : st \in DraftStatuses }

InitApprove ==
    /\ \E drafts \in DraftTables : db = [EmptyDb EXCEPT !.drafts = drafts]
    /\ requests \in [RequestIds ->
                        [client_id : {"A", "B"},
                         draft_id : {"D1", "D2", "D9"},
                         pc : {"start"}, loaded : {<<>>}, replaced : {<<>>}]]
    /\ clock = ApproveClock
    /\ preference = EmptyPreferences(0)
    /\ history = <<>>
    /\ IdleCma
    /\ IdleBatch

\* lines 219-225: no DraftMessage with the id and the client, HTTP 404
ApproveNotFound(r) ==
    /\ requests[r].pc = "start"
    /\ DraftRows(db.drafts, requests[r].draft_id, requests[r].client_id) = <<>>
    /\ requests' = [requests EXCEPT ![r].pc = "HTTP 404"]
    /\ UNCHANGED <<db, clock>>

\* lines 219-223: the query; the Session keeps the row as read
ApproveLoad(r) ==
    /\ requests[r].pc = "start"
    /\ DraftRows(db.drafts, requests[r].draft_id, requests[r].client_id) # <<>>
    /\ requests' = [requests EXCEPT
          ![r].pc = "loaded",
          ![r].loaded = Some(DraftRows(db.drafts, requests[r].draft_id,
                                       requests[r].client_id)[1])]
    /\ UNCHANGED <<db, clock>>

\* lines 226-227: the loaded draft is not to be approved, HTTP 400
ApproveReject(r) ==
    /\ requests[r].pc = "loaded"
    /\ ~Approvable(requests[r].loaded[1])
    /\ requests' = [requests EXCEPT ![r].pc = "HTTP 400"]
    /\ UNCHANGED <<db, clock>>

\* lines 228-237: status and sent_at are assigned and db.commit() writes
\* them to the row; `replaced` keeps the row as it was when it was written
ApproveCommit(r) ==
    /\ requests[r].pc = "loaded"
    /\ Approvable(requests[r].loaded[1])
    /\ db' = [db EXCEPT !.drafts = ApprovalCommitted(@, requests[r].draft_id,
                                                     clock)]
    /\ requests' = [requests EXCEPT
          ![r].pc = "HTTP 202",
          ![r].replaced = Some(SelectSeq(db.drafts, LAMBDA m :
                                            m.id = requests[r].draft_id)[1])]
    /\ UNCHANGED clock

\* time passes between two steps
ClockTick ==
    /\ clock.t < ApproveClock.t + MaxTicks
    /\ clock' = [clock EXCEPT !.t = @ + 1]
    /\ UNCHANGED <<db, requests>>

NextApprove ==
    /\ \/ \E r \in RequestIds :
             \/ ApproveNotFound(r)
             \/ ApproveLoad(r)
             \/ ApproveReject(r)
             \/ ApproveCommit(r)
       \/ ClockTick
    /\ UNCHANGED <<preference, history>>
    /\ UNCHANGED cmaVars
    /\ UNCHANGED batchVars

SpecApprove == InitApprove /\ [][NextApprove]_vars

----------------------------------------------------------------------------
(* SpecUpsert: an ingest run upserts the listings a provider streams *)

\* most listings in the stream
MaxUpserts == 2

\* the instant of the run
UpsertClock == [t |-> 5000, year |-> PrefYear]

\* price changes recorded earlier
PriceChanges(n) ==
    [i \in 1..n |-> [at |-> i, previous |-> 4000000 + i, new |-> 4000001 + i]]

\* the listing already stored under dedupe key k1
StoredListings ==
    { [dedupe_key |-> "k1", standard_status |-> "Active",
       list_price_cents |-> price, list_price_history |-> changes,
       last_seen_at |-> 4000]
      : price \in {Some(4500000), None}, changes \in {<<>>, PriceChanges(1)} }
    \cup
    { [dedupe_key |-> "k1", standard_status |-> "Active",
       list_price_cents |-> Some(4500000),
       list_price_history |-> PriceChanges(HistoryLimit),
       last_seen_at |-> 4000],
      [dedupe_key |-> "k1", standard_status |-> "Active",
       list_price_cents |-> Some(0), list_price_history |-> PriceChanges(1),
       last_seen_at |-> 4000] }

\* what a provider streams: list_price in 1/1000 dollar; the providers leave
\* list_price_history at its default, the empty list
NormalizedListings ==
    { [dedupe_key |-> "k1", standard_status |-> "Active",
       list_price |-> Some(42000000), list_price_history |-> <<>>],
      [dedupe_key |-> "k1", standard_status |-> "Pending",
       list_price |-> Some(43000000), list_price_history |-> <<>>],
      \* 44999.995 dollars: 4500000 cents
      [dedupe_key |-> "k1", standard_status |-> "Active",
       list_price |-> Some(44999995), list_price_history |-> <<>>],
      [dedupe_key |-> "k1", standard_status |-> "Active",
       list_price |-> None, list_price_history |-> <<>>],
      \* the history as stored is sent back
      [dedupe_key |-> "k1", standard_status |-> "Active",
       list_price |-> Some(41000000), list_price_history |-> PriceChanges(1)],
      [dedupe_key |-> "k2", standard_status |-> "Active",
       list_price |-> Some(39000000), list_price_history |-> <<>>] }

InitUpsert ==
    /\ \E stored \in StoredListings :
          db = [EmptyDb EXCEPT !.listings = <<stored>>]
    /\ \E order \in FieldOrders,
          stream \in BoundedSeq(NormalizedListings, MaxUpserts) :
          /\ stream # <<>>
          /\ requests = [field_order |-> order, stream |-> stream]
    /\ clock = UpsertClock
    /\ preference = EmptyPreferences(0)
    /\ history = <<>>
    /\ IdleCma
    /\ IdleBatch

\* upsert_listing(session, normalized) for the next listing of the stream
UpsertListing ==
    /\ requests.stream # <<>>
    /\ db' = [db EXCEPT !.listings = upsert_listing(@, Head(requests.stream),
                                                    requests.field_order, clock)]
    /\ requests' = [requests EXCEPT !.stream = Tail(@)]
    /\ UNCHANGED <<clock, preference, history>>
    /\ UNCHANGED cmaVars
    /\ UNCHANGED batchVars

NextUpsert == UpsertListing

SpecUpsert == InitUpsert /\ [][NextUpsert]_vars

----------------------------------------------------------------------------
(* Properties of compute_cma (SpecCma) *)

Computed == cma.status = "ok"

\* a comparable that has a usable (present, non-zero) close or list price
Usable(listing) ==
    Truthy(listing.close_price_cents) \/ Truthy(listing.list_price_cents)
UsableIds ==
    LET u == SelectSeq(comparables, LAMBDA e: Usable(e.listing))
    IN  [i \in 1..Len(u) |-> u[i].listing.id]

\* C1: whenever compute_cma returns a result,
\* price_low_cents <= price_mid_cents <= price_high_cents.
C1_BandOrdered ==
    Computed => /\ cma.price_low_cents <= cma.price_mid_cents
                /\ cma.price_mid_cents <= cma.price_high_cents

\* a result whose band is strictly ordered on both sides
C1_Witness ==
    /\ Computed
    /\ cma.price_low_cents < cma.price_mid_cents
    /\ cma.price_mid_cents < cma.price_high_cents

\* C2: whenever compute_cma returns a result, 0 <= confidence <= 1
\* (confidence is kept in hundredths).
C2_ConfidenceInUnitInterval ==
    Computed => cma.confidence >= 0 /\ cma.confidence <= 100

\* a result over comparables that sat long on the market (recency factor
\* at its cap) with a confidence strictly inside the interval
C2_Witness ==
    /\ Computed
    /\ cma.confidence > 0 /\ cma.confidence < 100
    /\ \A i \in 1..Len(comparables) :
          OrZero(comparables[i].listing.days_on_market) > 180

\* C3: no price of a valuation is negative: every adjusted price and each
\* of low, mid, high is >= 0, and a comparable whose adjustments exceed its
\* price is kept with adjusted price 0 instead of failing the valuation.
C3_NoNegativePrice ==
    Computed =>
      /\ cma.price_low_cents >= 0
      /\ cma.price_mid_cents >= 0
      /\ cma.price_high_cents >= 0
      /\ \A i \in 1..Len(cma.comps) :
            /\ cma.comps[i].adjusted_price_cents >= 0
            /\ cma.comps[i].raw_price_cents + MapSum(cma.comps[i].adjustments) < 0
                  => cma.comps[i].adjusted_price_cents = 0

\* a result with a comparable whose adjustments exceed its price
C3_Witness ==
    /\ Computed
    /\ \E i \in 1..Len(cma.comps) :
          /\ cma.comps[i].raw_price_cents + MapSum(cma.comps[i].adjustments) < 0
          /\ cma.comps[i].adjusted_price_cents = 0

\* the subject has a condition-note key among mechanical, electrical,
\* structural that is present and truthy
HasDefect == \E key \in {"mechanical", "electrical", "structural"} :
                key \in DOMAIN subject.condition_notes
                /\ subject.condition_notes[key] = TRUE

\* ratio = list_price_cents / price_mid_cents exists and is <= 0.8
RatioAtOrBelowThreshold ==
    /\ subject.list_price_cents # None
    /\ cma.price_mid_cents # 0
    /\ 5 * subject.list_price_cents[1] <= 4 * cma.price_mid_cents

\* C4 as stated: deal_alert is present iff the ratio is at or below the
\* threshold and no defect key is truthy.
C4_AlertIffRatioAndNoDefect ==
    Computed => ((cma.deal_alert # None) <=> (RatioAtOrBelowThreshold /\ ~HasDefect))

\* C4 amended: deal_alert is present iff the list price is present and
\* non-zero, price_mid_cents is positive, the ratio is at or below the
\* threshold and no defect key is truthy; an emitted alert carries a
\* discount_ratio (in 1/10000) at or below the threshold.
C4_AlertIffPricedRatioAndNoDefect ==
    Computed =>
      /\ (cma.deal_alert # None) <=>
            /\ Truthy(subject.list_price_cents)
            /\ cma.price_mid_cents > 0
            /\ RatioAtOrBelowThreshold
            /\ ~HasDefect
      /\ cma.deal_alert # None => cma.deal_alert[1].discount_ratio <= 8000

\* an alert emitted for a subject whose structural note is present with a
\* falsy value
C4_Witness ==
    /\ Computed
    /\ cma.deal_alert # None
    /\ "structural" \in DOMAIN subject.condition_notes

C6_SkipsUnpricedComparables ==
    Computed =>
      /\ [i \in 1..Len(cma.comps) |-> cma.comps[i].listing_id] = UsableIds
      /\ cma.price_mid_cents =
            Median2([i \in 1..Len(cma.comps) |->
                        cma.comps[i].adjusted_price_cents]) \div 2

\* a result in which an unpriced comparable stood before two priced ones
C6_Witness ==
    /\ Computed
    /\ Len(comparables) = 3
    /\ ~Usable(comparables[1].listing)
    /\ Len(cma.comps) = 2

----------------------------------------------------------------------------
(* Properties of _adjust_price, the band, the confidence and the deal
   detection of compute_cma (SpecCma) *)

\* the attribute each named delta of _adjust_price is computed from
DeltaAttribute(listing, name) ==
    CASE name = "bedrooms" -> listing.beds
      [] name = "bathrooms" -> listing.baths
      [] name = "living_area" -> listing.sqft
      [] name = "lot_size" -> listing.lot_sqft
      [] name = "year_built" -> listing.year_built
DeltaNames == {"bedrooms", "bathrooms", "living_area", "lot_size", "year_built"}

\* the listings with a usable price, in input order: the listing of cma.comps[i]
UsableListings ==
    LET u == SelectSeq(comparables, LAMBDA e: Usable(e.listing))
    IN  [i \in 1..Len(u) |-> u[i].listing]

\* C22: a named delta (bedrooms, bathrooms, living_area, lot_size,
\* year_built) appears in the adjustments of a comparable only when both the
\* subject and the comparable provide the attribute.
C22_DeltaOnlyWhenBothProvide ==
    Computed =>
        \A i \in 1..Len(cma.comps) : \A name \in DeltaNames :
            name \in DOMAIN cma.comps[i].adjustments
            => /\ DeltaAttribute(subject, name) # None
               /\ DeltaAttribute(UsableListings[i], name) # None

\* the deltas other than bedrooms and bathrooms are applied only when both
\* sides provide the attribute; those two only when one side does
DeltaOnlyWhenOneOrBothProvide ==
    Computed =>
        \A i \in 1..Len(cma.comps) : \A name \in DeltaNames :
            name \in DOMAIN cma.comps[i].adjustments
            => IF name \in {"bedrooms", "bathrooms"}
               THEN \/ DeltaAttribute(subject, name) # None
                    \/ DeltaAttribute(UsableListings[i], name) # None
               ELSE /\ DeltaAttribute(subject, name) # None
                    /\ DeltaAttribute(UsableListings[i], name) # None

\* C23: the returned band is never zero-width:
\* price_low_cents < price_high_cents.
C23_BandNeverZeroWidth ==
    Computed => cma.price_low_cents < cma.price_high_cents

\* with a MAD of 0 the band has a width whenever price_mid is at least 14
\* cents
SubstitutedBandHasWidth ==
    (/\ Computed
     /\ cma.price_mid_cents >= 14
     /\ \A i \in 1..Len(cma.comps) :
           cma.comps[i].adjusted_price_cents = cma.price_mid_cents)
    => cma.price_low_cents < cma.price_high_cents

\* round(clamp(size_factor * (1 - variability), 0.2, 0.95) * recency_factor, 2)
\* in hundredths, for the adjusted prices and listings of the state, with
\* the given variability
ConfidenceFormula(variability) ==
    LET prices == [i \in 1..Len(cma.comps) |-> cma.comps[i].adjusted_price_cents]
        size_factor == RMin(<<1, 1>>, RNorm(Len(prices), 6))
    IN  RoundPos(ClampConfidence(RMul(size_factor, RSub(<<1, 1>>, variability))),
                 RecentFactor([i \in 1..Len(comparables) |->
                                  comparables[i].listing]),
                 100)
\* the median of the adjusted prices, times 2
AdjustedMedian2 ==
    Median2([i \in 1..Len(cma.comps) |-> cma.comps[i].adjusted_price_cents])
\* MAD / median of the adjusted prices
Variability ==
    RNorm(Median2([i \in 1..Len(cma.comps) |->
                      Abs(2 * cma.comps[i].adjusted_price_cents - AdjustedMedian2)]),
          2 * AdjustedMedian2)

\* C24: the confidence is round(clamp(size_factor * (1 - variability), 0.2,
\* 0.95) * recency_factor, 2), with variability = MAD / median, taken as 0
\* when the median is <= 0.
C24_ConfidenceFormula ==
    Computed =>
        cma.confidence = IF AdjustedMedian2 <= 0 THEN ConfidenceFormula(<<0, 1>>)
                         ELSE ConfidenceFormula(Variability)

\* the formula holds whenever the median is positive, and the confidence is
\* 0 otherwise
ConfidenceFormulaOrZero ==
    Computed =>
        cma.confidence = IF AdjustedMedian2 <= 0 THEN 0
                         ELSE ConfidenceFormula(Variability)

\* C25: no DealAlert is emitted when the subject's list price is missing,
\* zero or negative, or when price_mid_cents <= 0.
C25_NoAlertWhenNonPositive ==
    (/\ Computed
     /\ \/ subject.list_price_cents = None
        \/ subject.list_price_cents[1] <= 0
        \/ cma.price_mid_cents <= 0)
    => cma.deal_alert = None

\* no alert when the list price is missing or zero, or price_mid_cents <= 0
NoAlertWhenUnpriced ==
    (/\ Computed
     /\ \/ ~Truthy(subject.list_price_cents)
        \/ cma.price_mid_cents <= 0)
    => cma.deal_alert = None

----------------------------------------------------------------------------
(* Properties of the feedback calls (SpecPrefs) *)

\* the PreferenceVector after the i-th call of the history
After(i) == IF i < Len(history) THEN history[i + 1].before ELSE preference

\* the i-th call is apply_feedback(vector, signal) with no learning rate given
IsDefaultFeedback(i, vector, signal) ==
    /\ i <= Len(history)
    /\ history[i].op = "apply_feedback"
    /\ history[i].vector = vector
    /\ history[i].signal_strength = signal
    /\ history[i].learning_rate = None

IsEmptyPreferences(p) == DOMAIN p.numeric = {} /\ DOMAIN p.tags = {}

\* some numeric or tag value of the vector is not 0
HasNonZeroFeature(vector) ==
    \/ \E k \in DOMAIN vector.numeric : vector.numeric[k][1] # 0
    \/ \E k \in DOMAIN vector.tags : vector.tags[k][1] # 0

\* from empty preferences, feedback +1 on the vector raises its score, and a
\* following feedback -1 on it lowers the score below the raised value
ScoreRisesThenFalls(vector) ==
    (IsDefaultFeedback(1, vector, <<1, 1>>) /\ IsEmptyPreferences(history[1].before))
    => /\ score_listing(vector, After(1)) > score_listing(vector, history[1].before)
       /\ IsDefaultFeedback(2, vector, <<0 - 1, 1>>)
             => score_listing(vector, After(2)) < score_listing(vector, After(1))

\* C9 as stated: for any feature vector, from an empty PreferenceVector one
\* apply_feedback(+1) with the default learning rate makes the vector's score
\* strictly greater, and a following apply_feedback(-1) strictly smaller
\* than the improved value.
C9_ScoreRisesThenFallsAnyVector ==
    \A vector \in FeatureVectors : ScoreRisesThenFalls(vector)

\* C9 amended: the same for every feature vector that has at least one
\* non-zero numeric or tag value.
C9_ScoreRisesThenFallsNonZeroVector ==
    \A vector \in FeatureVectors :
        HasNonZeroFeature(vector) => ScoreRisesThenFalls(vector)

\* feedback +1 then -1 on one non-zero vector, starting from empty preferences
C9_Witness ==
    \E vector \in FeatureVectors :
        /\ HasNonZeroFeature(vector)
        /\ Len(history) = 2
        /\ IsEmptyPreferences(history[1].before)
        /\ IsDefaultFeedback(1, vector, <<1, 1>>)
        /\ IsDefaultFeedback(2, vector, <<0 - 1, 1>>)
        /\ score_listing(vector, After(1)) > 0
        /\ score_listing(vector, After(2)) = 0

\* the weight map `after` is `before` updated by one feedback call: each key
\* of the vector holds old weight (0 if absent) + lr * signal * value, every
\* other key keeps its weight, and no other key exists
UpdatedBy(after, before, values, lr, signal) ==
    /\ DOMAIN after = DOMAIN before \cup DOMAIN values
    /\ \A k \in DOMAIN values :
          after[k] = RAdd(IF k \in DOMAIN before THEN before[k] ELSE <<0, 1>>,
                          RMul(lr, RMul(signal, values[k])))
    /\ \A k \in DOMAIN before \ DOMAIN values : after[k] = before[k]

\* the i-th call of the history followed the update formula with rate lr
FollowsUpdateFormula(i, lr) ==
    LET call == history[i]
    IN  /\ UpdatedBy(After(i).numeric, call.before.numeric,
                     call.vector.numeric, lr, call.signal_strength)
        /\ UpdatedBy(After(i).tags, call.before.tags,
                     call.vector.tags, lr, call.signal_strength)

\* the rate the caller asked for: the one supplied, the configured default
\* when none is supplied
RequestedLearningRate(learning_rate) ==
    IF learning_rate = None THEN PreferenceLearningRate ELSE learning_rate[1]

\* C10: apply_feedback(prefs, vector, signal, lr) sets, for every key of
\* vector.numeric (resp. vector.tags), the weight to old weight (0 if absent)
\* + lr * signal * value, for any signal, lr being the rate the caller
\* supplied (the default when none is supplied); every weight whose key is
\* not in the vector is unchanged.
C10_FeedbackUpdatesVectorKeysOnly ==
    \A i \in 1..Len(history) :
        history[i].op = "apply_feedback" =>
            FollowsUpdateFormula(i, RequestedLearningRate(history[i].learning_rate))

\* the same with the rate the update loop works with (lines 163-164 replace a
\* supplied 0 by the default): holds in every call
FeedbackUpdatesWithLoopRate ==
    \A i \in 1..Len(history) :
        history[i].op = "apply_feedback" =>
            FollowsUpdateFormula(i, EffectiveLearningRate(history[i].learning_rate))

\* the i-th call is an apply_feedback call that was given a learning rate
SuppliesLearningRate(i) ==
    history[i].op = "apply_feedback" /\ history[i].learning_rate # None

\* C11: apply_feedback uses the configured default learning rate (0.25) only
\* when the caller supplies none; every learning rate the caller does supply,
\* 0 included, is the one used in the weight update.
C11_SuppliedLearningRateUsed ==
    \A i \in 1..Len(history) :
        /\ SuppliesLearningRate(i)
              => FollowsUpdateFormula(i, history[i].learning_rate[1])
        /\ IsDefaultFeedback(i, history[i].vector, history[i].signal_strength)
              => FollowsUpdateFormula(i, PreferenceLearningRate)

\* the part of C11 that the calls satisfy: a supplied rate other than 0 is
\* the one used, and the default is used when none is supplied
NonZeroSuppliedRateUsed ==
    \A i \in 1..Len(history) :
        /\ (SuppliesLearningRate(i) /\ history[i].learning_rate[1][1] # 0)
              => FollowsUpdateFormula(i, history[i].learning_rate[1])
        /\ IsDefaultFeedback(i, history[i].vector, history[i].signal_strength)
              => FollowsUpdateFormula(i, PreferenceLearningRate)

\* the weight map is empty or all its values are 0
HasZeroNorm(weights) == \A k \in DOMAIN weights : weights[k][1] = 0

\* C19: cosine_similarity returns 0 (and never divides by zero) whenever
\* either operand is empty or has zero norm; consequently score_listing of
\* any feature vector against an empty PreferenceVector, or one whose
\* weights are all 0, is exactly 0.0.
C19_ZeroNormScoresZero ==
    \A vector \in FeatureVectors :
        /\ (HasZeroNorm(vector.numeric) \/ HasZeroNorm(preference.numeric))
              => cosine_similarity(vector.numeric, preference.numeric) = 0
        /\ (HasZeroNorm(vector.tags) \/ HasZeroNorm(preference.tags))
              => cosine_similarity(vector.tags, preference.tags) = 0
        /\ (HasZeroNorm(preference.numeric) /\ HasZeroNorm(preference.tags))
              => score_listing(vector, preference) = 0

\* a PreferenceVector that has keys and whose weights are all back to 0
\* after two feedback calls, scored 0.0 against a vector that has values
C19_Witness ==
    /\ Len(history) = 2
    /\ DOMAIN preference.numeric # {}
    /\ DOMAIN preference.tags # {}
    /\ HasZeroNorm(preference.numeric)
    /\ HasZeroNorm(preference.tags)
    /\ HasNonZeroFeature(history[2].vector)
    /\ score_listing(history[2].vector, preference) = 0
    /\ score_listing(history[2].vector, history[2].before) # 0

----------------------------------------------------------------------------
(* Properties of from_client and decay_preferences (SpecStored) *)

\* the i-th call of the history is a decay_preferences call
IsDecay(i) == history[i].op = "decay_preferences"
\* the time between prefs.updated_at and now at the i-th call, in hours
Elapsed(i) == history[i].now - history[i].before.updated_at
DecayWindowHours == PreferenceDecayDays * HoursPerDay

\* C12: decay_preferences is a no-op when the time elapsed between
\* prefs.updated_at and now is at most the decay window (45 days): all
\* numeric weights, all tag weights and updated_at are unchanged.
C12_DecayNoOpWithinWindow ==
    \A i \in 1..Len(history) :
        (IsDecay(i) /\ Elapsed(i) <= DecayWindowHours)
            => /\ After(i).numeric = history[i].before.numeric
               /\ After(i).tags = history[i].before.tags
               /\ After(i).updated_at = history[i].before.updated_at

\* a decay exactly 45 days after a vector with weights was written
C12_Witness ==
    /\ Len(history) = 2
    /\ IsDecay(2)
    /\ Elapsed(2) = DecayWindowHours
    /\ DOMAIN history[2].before.numeric # {}
    /\ DOMAIN history[2].before.tags # {}
    /\ preference = history[2].before

\* |a| for a rational a
RAbs(a) == <<Abs(a[1]), a[2]>>

\* the weight map `after` is `before` with every weight multiplied by f;
\* every weight that is not 0 is strictly smaller in magnitude, has kept its
\* sign and at least 0.2 of its value
ScaledBy(after, before, f) ==
    /\ DOMAIN after = DOMAIN before
    /\ \A k \in DOMAIN before :
          /\ after[k] = RMul(before[k], f)
          /\ before[k][1] # 0
                => /\ RLt(RAbs(after[k]), RAbs(before[k]))
                   /\ (after[k][1] > 0) = (before[k][1] > 0)
                   /\ RLeq(RMul(<<1, 5>>, RAbs(before[k])), RAbs(after[k]))

\* no weight of `after` is larger in magnitude than it is in `before`
NoWeightGrows(after, before) ==
    /\ DOMAIN after = DOMAIN before
    /\ \A k \in DOMAIN before : RLeq(RAbs(after[k]), RAbs(before[k]))

\* C13: when the elapsed time exceeds the decay window, decay_preferences
\* multiplies every numeric and tag weight by one factor
\* f = max(0.2, 1 - elapsed_days / (decay_window_days * 4)), elapsed_days
\* being the whole days elapsed, with 0.2 <= f < 1: every nonzero weight
\* strictly shrinks in magnitude, keeps its sign and retains at least 0.2 of
\* its value; no weight ever grows.
C13_DecayShrinksByOneFactor ==
    \A i \in 1..Len(history) :
        IsDecay(i) =>
            /\ NoWeightGrows(After(i).numeric, history[i].before.numeric)
            /\ NoWeightGrows(After(i).tags, history[i].before.tags)
            /\ Elapsed(i) > DecayWindowHours =>
                  LET elapsed_days == Elapsed(i) \div HoursPerDay
                      linear == RNorm(PreferenceDecayDays * 4 - elapsed_days,
                                      PreferenceDecayDays * 4)
                      f == IF RLeq(linear, <<1, 5>>) THEN <<1, 5>> ELSE linear
                  IN  /\ RLeq(<<1, 5>>, f)
                      /\ RLt(f, <<1, 1>>)
                      /\ ScaledBy(After(i).numeric, history[i].before.numeric, f)
                      /\ ScaledBy(After(i).tags, history[i].before.tags, f)

\* a decay 200 days after a vector with positive and negative weights was
\* written: the factor is the floor 0.2
C13_Witness ==
    /\ Len(history) = 2
    /\ IsDecay(2)
    /\ Elapsed(2) = 200 * HoursPerDay
    /\ history[2].before.numeric = StoredNumeric
    /\ preference.numeric.sqft = <<9, 100>>
    /\ preference.numeric.beds = <<0 - 3, 5>>
    /\ preference.tags.has_pool = <<1, 20>>

\* the entry of a persisted mapping under key is a mapping
HasMapping(raw, key) ==
    IsMapping(raw) /\ key \in DOMAIN raw /\ IsMapping(raw[key])
\* the persisted mapping carries an ISO instant under updated_at
HasIsoInstant(raw) ==
    /\ IsMapping(raw) /\ "updated_at" \in DOMAIN raw
    /\ IsScalar(raw.updated_at) /\ raw.updated_at.kind = "iso"

\* the vector from_client returned for raw at instant now has empty weight
\* maps for the missing or malformed parts, updated_at = now when the
\* persisted instant is absent or unusable, and the persisted parts otherwise
DefaultsFor(raw, vector, now) ==
    /\ IF HasMapping(raw, "numeric") THEN vector.numeric = raw.numeric
       ELSE DOMAIN vector.numeric = {}
    /\ IF HasMapping(raw, "tags") THEN vector.tags = raw.tags
       ELSE DOMAIN vector.tags = {}
    /\ IF HasIsoInstant(raw) THEN vector.updated_at = raw.updated_at.t
       ELSE vector.updated_at = now

\* C14: PreferenceVector.from_client never raises: for any persisted value
\* that is missing or malformed (None, empty, not a mapping, a mapping whose
\* numeric/tags entries are not mappings, or whose updated_at is absent,
\* unparsable or not a string) it returns a vector with empty weight maps
\* for the malformed parts and updated_at = now.
C14_FromClientNeverRaises ==
    \A i \in 1..Len(history) :
        history[i].op = "from_client"
            => /\ history[i].raised = ""
               /\ DefaultsFor(history[i].raw, After(i), clock.t)

\* the part of C14 that the calls satisfy: when from_client returns, the
\* vector has the defaults for the missing or malformed parts
FromClientDefaultsWhenItReturns ==
    \A i \in 1..Len(history) :
        (history[i].op = "from_client" /\ history[i].raised = "")
            => DefaultsFor(history[i].raw, After(i), clock.t)

\* the i-th call handed its PreferenceVector to apply_feedback or to
\* decay_preferences
TakesPreferences(i) == history[i].op \in {"apply_feedback", "decay_preferences"}

\* C20: the preference core never mutates the state it is given:
\* apply_feedback and decay_preferences leave the PreferenceVector object
\* passed in (its numeric map, tags map and updated_at) unchanged and return
\* the updated weights as a new value object.
C20_ArgumentLeftUnchanged ==
    \A i \in 1..Len(history) :
        TakesPreferences(i)
            => /\ After(i).numeric = history[i].before.numeric
               /\ After(i).tags = history[i].before.tags
               /\ After(i).updated_at = history[i].before.updated_at

----------------------------------------------------------------------------
(* Properties of vector_from_listing (SpecVector) *)

\* the i-th and the j-th call were given the same listing and the same
\* explicit preferences
SameArguments(i, j) ==
    /\ history[i].listing = history[j].listing
    /\ history[i].explicit_prefs = history[j].explicit_prefs

\* C15: vector_from_listing is deterministic and pure: two calls with
\* identical listing and explicit-preference inputs return identical feature
\* vectors regardless of when they are made, and the call modifies neither
\* argument.
C15_SameInputsSameVector ==
    \A i, j \in 1..Len(history) :
        SameArguments(i, j) => history[i].vector = history[j].vector

\* the part of C15 that the calls satisfy: two calls with the same arguments
\* made in the same year return the same vector
SameInputsSameYearSameVector ==
    \A i, j \in 1..Len(history) :
        (SameArguments(i, j) /\ history[i].year = history[j].year)
            => history[i].vector = history[j].vector

\* the listing attribute behind a numeric feature, and the feature's
\* normalization applied to the attribute value x
NumericAttribute(listing, key) ==
    CASE key = "sqft" -> listing.sqft
      [] key = "beds" -> listing.beds
      [] key = "baths" -> listing.baths
      [] key = "lot_sqft" -> listing.lot_sqft
      [] key = "year_built" -> listing.year_built
      [] key = "hoa_fee" -> listing.hoa_fee_cents
      [] key = "days_on_market" -> listing.days_on_market
NormalizationOf(key, x) ==
    CASE key = "sqft" -> RNorm(x, 4000)
      [] key = "beds" -> RNorm(x, 1)
      [] key = "baths" -> RNorm(x, 1)
      [] key = "lot_sqft" -> RNorm(x, 20000)
      [] key = "year_built" -> RNorm(x - 1950, 100)
      [] key = "hoa_fee" -> RNorm(x, 10000)
      [] key = "days_on_market" -> RNorm(x, 120)

\* in the i-th call, every attribute of keys that the listing lacks gives
\* the feature of the attribute value 0; a listing without any price gives
\* the price feature of the same listing priced 0
MissingCountsAsZero(i, keys) ==
    LET listing == history[i].listing
        vector == history[i].vector
    IN  /\ \A key \in keys :
              NumericAttribute(listing, key) = None
                  => vector.numeric[key] = NormalizationOf(key, 0)
        /\ (listing.list_price_cents = None /\ listing.market_estimate_cents = None)
              => vector.numeric.price =
                     PriceFeature([listing EXCEPT !.list_price_cents = Some(0)],
                                  history[i].explicit_prefs)

\* C16: in vector_from_listing every missing numeric listing attribute
\* (price, living area, beds, baths, lot size, year built, HOA fee, days on
\* market) is replaced by 0 before normalization, so the feature equals the
\* normalization formula applied to 0 (a missing year built yields
\* (0 - 1950)/100).
C16_MissingNumericIsZero ==
    \A i \in 1..Len(history) :
        MissingCountsAsZero(i, {"sqft", "beds", "baths", "lot_sqft",
                                "year_built", "hoa_fee", "days_on_market"})

\* the part of C16 that the calls satisfy: every attribute but the year built
MissingNumericButYearIsZero ==
    \A i \in 1..Len(history) :
        MissingCountsAsZero(i, {"sqft", "beds", "baths", "lot_sqft",
                                "hoa_fee", "days_on_market"})

IsIndicator(x) == x = <<0, 1>> \/ x = <<1, 1>>

\* C17: every tag feature produced by vector_from_listing (has_garage,
\* has_pool, new_construction, walkable, open_floorplan, finished_basement,
\* large_yard, waterfront) is exactly 0.0 or 1.0, for every listing,
\* including listings with more than one parking space.
C17_TagsAreIndicators ==
    \A i \in 1..Len(history) :
        \A key \in DOMAIN history[i].vector.tags :
            IsIndicator(history[i].vector.tags[key])

\* the part of C17 that the calls satisfy: every tag but has_garage, and
\* has_garage of a listing with a garage amenity or at most one parking space
TagsButParkingAreIndicators ==
    \A i \in 1..Len(history) :
        \A key \in DOMAIN history[i].vector.tags :
            \/ IsIndicator(history[i].vector.tags[key])
            \/ /\ key = "has_garage"
               /\ ~DictTruthy(history[i].listing.amenities, "garage")
               /\ OrZero(history[i].listing.parking_spaces) > 1

\* the price-center of the i-th call, in dollars: the midpoint of price_min
\* and price_max when both are present, otherwise the listing's own price
PriceCenter(i) ==
    LET prefs == history[i].explicit_prefs
        listing == history[i].listing
    IN  IF "price_min" \in DOMAIN prefs /\ "price_max" \in DOMAIN prefs
        THEN RNorm(prefs.price_min + prefs.price_max, 2)
        ELSE RNorm(OrZero(OrElse(listing.list_price_cents,
                                 listing.market_estimate_cents)), 100)
\* the listing's price in dollars
ListingPrice(i) ==
    RNorm(OrZero(OrElse(history[i].listing.list_price_cents,
                        history[i].listing.market_estimate_cents)), 100)

\* C18: the numeric price feature of vector_from_listing is the listing
\* price's deviation from a price-center divided by that center, the center
\* being the midpoint of the explicit min/max price preferences when both
\* are present and otherwise the listing's own price (a listing with no
\* explicit price bounds has price feature 0).
C18_PriceIsRelativeDeviation ==
    \A i \in 1..Len(history) :
        PriceCenter(i)[1] # 0 =>
            history[i].vector.numeric.price =
                RNorm(RSub(ListingPrice(i), PriceCenter(i))[1] * PriceCenter(i)[2],
                      RSub(ListingPrice(i), PriceCenter(i))[2] * PriceCenter(i)[1])

\* what the calls satisfy instead: with both bounds present and not 0, or
\* without bounds, the price feature is the price-center itself
PriceIsCenter ==
    \A i \in 1..Len(history) :
        LET prefs == history[i].explicit_prefs
        IN  (/\ PriceCenter(i)[1] # 0
             /\ "price" \notin DOMAIN prefs
             /\ "price_min" \in DOMAIN prefs => prefs.price_min # 0)
                => history[i].vector.numeric.price = PriceCenter(i)

----------------------------------------------------------------------------
(* Properties of the retrain endpoint (SpecRetrain) *)

\* the vector a retrain request with these interactions persists when it is
\* served alone on a Client whose stored vector is preference_vector
ServedAlone(client, preference_vector, interactions) ==
    as_dict(retrain_preferences(
                [client EXCEPT !.preference_vector = preference_vector],
                PayloadListings(db.listings, interactions), interactions, clock))

\* the persisted vector of the client
PersistedVector(client_id) == ClientRows(db.clients, client_id)[1].preference_vector

C8_SerialWitness ==
    \E r1, r2 \in RequestIds :
        /\ requests[r1].pc = "done" /\ requests[r2].pc = "done"
        /\ requests[r1].snapshot < requests[r2].snapshot
        /\ requests[r2].loaded.client.preference_vector =
              db.snapshots[requests[r1].snapshot].vector
        /\ requests[r1].interactions # <<>>
        /\ requests[r2].interactions # <<>>

\* the interactions of request r whose listing_id is the id of a loaded
\* listing, in the order given, each as the feature vector of that listing
\* and the signal of the interaction (0 when it has none)
MatchedFeedback(r) ==
    LET matched == SelectSeq(requests[r].interactions, LAMBDA ix :
                      /\ "listing_id" \in DOMAIN ix
                      /\ \E k \in 1..Len(requests[r].loaded.listings) :
                            requests[r].loaded.listings[k].id = ix.listing_id)
    IN  [i \in 1..Len(matched) |->
            [vector |-> vector_from_listing(
                            ListingRow(requests[r].loaded.listings,
                                       matched[i].listing_id),
                            requests[r].loaded.client.prefs, clock.year),
             signal |-> IF "signal" \in DOMAIN matched[i]
                        THEN matched[i].signal ELSE <<0, 1>>]]

\* apply_feedback once per step, first step first
RECURSIVE FeedbackInOrder(_, _)
FeedbackInOrder(prefs, steps) ==
    IF steps = <<>> THEN prefs
    ELSE FeedbackInOrder(apply_feedback(prefs, steps[1].vector, steps[1].signal,
                                        None, clock.t),
                         Tail(steps))

\* C28: the vector a retrain stores is the persisted vector, decayed once,
\* then updated by apply_feedback once per interaction in the order given,
\* with that interaction's signal; interactions whose listing_id matches no
\* listing change nothing.
C28_DecayThenFeedbackInOrder ==
    \A r \in RequestIds :
        requests[r].pc = "done" =>
            db.snapshots[requests[r].snapshot].vector
                = as_dict(FeedbackInOrder(
                      decay_preferences(
                          from_client(requests[r].loaded.client.preference_vector,
                                      clock.t),
                          clock.t),
                      MatchedFeedback(r)))

\* a completed retrain of a vector old enough to decay, with interactions of
\* which some match a listing and some do not; its result is the persisted
\* vector of the client
C28_Witness ==
    \E r \in RequestIds :
        /\ requests[r].pc = "done"
        /\ requests[r].loaded.client.preference_vector = TrainedVector
        /\ Len(MatchedFeedback(r)) >= 2
        /\ Len(MatchedFeedback(r)) < Len(requests[r].interactions)
        /\ PersistedVector(requests[r].client_id)
              = db.snapshots[requests[r].snapshot].vector

----------------------------------------------------------------------------
(* Properties of the daily digest batch (SpecDigest) *)

\* the digest of the client, made alone on the database the batch started
\* from
DigestAlone(client) ==
    generate_client_digest(digest.before, client, digest.limit, clock)

\* the valuation of the listing on the database the batch started from
ValuationAlone(listing_id) == ensure_cma_report(digest.before, listing_id, clock)

\* the listings recommended to some client of the batch
Recommended ==
    UNION { LET ranked == rank_listings(digest.before.clients[i],
                                        DigestCandidates(digest.before.listings),
                                        digest.limit, clock)
            IN  {ranked[j].value.id : j \in 1..Len(ranked)}
            : i \in 1..Len(digest.before.clients) }

\* C7: a failed valuation does not abort the batch: after run_daily_digests,
\* every client whose own recommended listings can all be valued has its
\* digest persisted, and every recommended listing that can be valued has a
\* persisted report.
C7_FailureIsolated ==
    digest.status # "none" =>
        /\ \A i \in 1..Len(digest.before.clients) :
              LET client == digest.before.clients[i]
              IN  (DigestAlone(client).raised = ""
                   /\ DigestAlone(client).tx.drafts # <<>>)
                  => \E d \in 1..Len(db.drafts) : db.drafts[d].client_id = client.id
        /\ \A listing_id \in Recommended :
              ValuationAlone(listing_id).raised = ""
              => \E r \in 1..Len(db.cma_reports) :
                    db.cma_reports[r].subject_listing_id = listing_id

\* a batch that met no error: every client with recommendations has its draft
C7_CommittedWitness ==
    /\ digest.status = "committed"
    /\ Len(db.drafts) = Len(db.clients)
    /\ Len(db.clients) > 1

----------------------------------------------------------------------------
(* Properties of _select_comparables and ensure_cma_report (SpecReport) *)

IsSelect(i) == reportCalls[i].op = "_select_comparables"
IsEnsure(i) == reportCalls[i].op = "ensure_cma_report"
\* the listing the i-th call was made for, as the call saw it
CallSubject(i) ==
    ListingRow(reportCalls[i].before.listings, reportCalls[i].listing_id)
\* the triples the i-th call yielded
Yielded(i) ==
    IF reportCalls[i].selected.raised = "" THEN reportCalls[i].selected.entries
    ELSE <<>>

\* the filters of the claim other than the one on the living area
PassesNamedFilters(l, subj) ==
    /\ l.id # subj.id
    /\ l.standard_status \in {"Closed", "Sold", "Pending"}
    /\ l.property_type = subj.property_type
    /\ subj.city # None => l.city = subj.city
    /\ l.latitude # None /\ l.longitude # None
    /\ subj.latitude # None /\ subj.longitude # None
    /\ HaversineMiles(<<subj.latitude[1], subj.longitude[1]>>,
                      <<l.latitude[1], l.longitude[1]>>) <= CmaRadiusMiles

\* living area within 20% of the subject's, on either side
WithinTwentyPercent(l, subj) ==
    /\ l.sqft # None
    /\ 5 * l.sqft[1] >= 4 * subj.sqft[1]
    /\ 5 * l.sqft[1] <= 6 * subj.sqft[1]

\* living area between the two bounds of the query, each 0.8 and 1.2 times
\* the subject's truncated to an integer
WithinTruncatedBounds(l, subj) ==
    /\ l.sqft # None
    /\ l.sqft[1] >= (4 * subj.sqft[1]) \div 5
    /\ l.sqft[1] <= (6 * subj.sqft[1]) \div 5

OnlyOtherTypes(rows, subj) ==
    \A k \in 1..Len(rows) :
        rows[k].id # subj.id => rows[k].property_type # subj.property_type

PassesQuery(l, subj) ==
    /\ l.id # subj.id
    /\ l.standard_status \in {"Closed", "Sold", "Pending"}
    /\ l.property_type = subj.property_type
    /\ (Truthy(subj.sqft) /\ (4 * subj.sqft[1]) \div 5 # 0)
          => WithinTruncatedBounds(l, subj)
    /\ (subj.city # None /\ subj.city[1] # "") => l.city = subj.city
UpdatedAt(l) ==
    IF l.source_updated_at = None THEN 0 - 1 ELSE l.source_updated_at[1].t
\* the rows that pass the query and were updated later than l
NewerCandidates(l, rows, subj) ==
    {k \in 1..Len(rows) : /\ PassesQuery(rows[k], subj)
                          /\ UpdatedAt(rows[k]) > UpdatedAt(l)}

\* C26: only the 50 most recently updated rows that pass the query filters
\* are examined: a listing with 50 or more such rows updated after it is
\* never yielded, however near it is.
C26_BeyondFiftiethNeverYielded ==
    \A i \in 1..Len(reportCalls) :
        IsSelect(i) =>
            /\ Len(Yielded(i)) <= CandidateLimit
            /\ \A k \in 1..Len(Yielded(i)) :
                  Cardinality(NewerCandidates(Yielded(i)[k].listing,
                                              reportCalls[i].before.listings,
                                              CallSubject(i)))
                      < CandidateLimit

\* 50 rows 3.4 miles away updated after a sold listing 0.4 mile away: that
\* listing passes the query and the distance test, and is not yielded
C26_Witness ==
    \E i \in 1..Len(reportCalls) :
        /\ IsSelect(i)
        /\ reportCalls[i].selected.raised = ""
        /\ \E k \in 1..Len(reportCalls[i].before.listings) :
              LET l == reportCalls[i].before.listings[k]
              IN  /\ PassesQuery(l, CallSubject(i))
                  /\ PassesNamedFilters(l, CallSubject(i))
                  /\ Cardinality(NewerCandidates(l, reportCalls[i].before.listings,
                                                 CallSubject(i)))
                        = CandidateLimit
                  /\ \A e \in 1..Len(Yielded(i)) : Yielded(i)[e].listing # l

\* with 49 such rows the sold listing is the 50th candidate and is yielded
C26_FiftiethYielded ==
    \E i \in 1..Len(reportCalls) :
        /\ IsSelect(i)
        /\ \E e \in 1..Len(Yielded(i)) :
              Cardinality(NewerCandidates(Yielded(i)[e].listing,
                                          reportCalls[i].before.listings,
                                          CallSubject(i)))
                  = CandidateLimit - 1

\* the CMAReports of the listing of the i-th call that were at most 3 days
\* old when the call was made
FreshReports(i) ==
    {k \in 1..Len(reportCalls[i].before.cma_reports) :
        /\ reportCalls[i].before.cma_reports[k].subject_listing_id
              = reportCalls[i].listing_id
        /\ clock.t - reportCalls[i].before.cma_reports[k].generated_at
              <= ReportFreshDays * HoursPerDay}

\* the call returned without recomputing: the most recent fresh report, and
\* every table as it was
ReturnedFresh(i) ==
    /\ reportCalls[i].run.raised = ""
    /\ reportCalls[i].run.tx = reportCalls[i].before
    /\ \E k \in FreshReports(i) :
          /\ reportCalls[i].run.report = reportCalls[i].before.cma_reports[k]
          /\ \A j \in FreshReports(i) :
                reportCalls[i].before.cma_reports[j].generated_at
                    <= reportCalls[i].before.cma_reports[k].generated_at

\* the call computed a valuation and persisted one report, which it returned
PersistedOne(i) ==
    /\ reportCalls[i].run.raised = ""
    /\ reportCalls[i].run.tx.cma_reports
          = Append(reportCalls[i].before.cma_reports, reportCalls[i].run.report)
    /\ reportCalls[i].run.report.subject_listing_id = reportCalls[i].listing_id
    /\ reportCalls[i].run.report.generated_at = clock.t
    /\ reportCalls[i].run.report.price_mid_cents
          = compute_cma(CallSubject(i),
                        _select_comparables(reportCalls[i].before.listings,
                                            CallSubject(i), clock).entries
                       ).price_mid_cents

\* C27: with a CMAReport of the listing generated within the last 3 days,
\* ensure_cma_report returns the most recent such report, creates no
\* CMAReport, ComparableSale or DealAlert and leaves the market estimate as it
\* was; a new report is persisted only when there is no such report, and
\* then exactly one.
C27_FreshReportReused ==
    \A i \in 1..Len(reportCalls) :
        IsEnsure(i) =>
            /\ FreshReports(i) # {} => ReturnedFresh(i)
            /\ FreshReports(i) = {} =>
                  \/ reportCalls[i].run.raised # ""
                  \/ PersistedOne(i)

\* a first call that found no fresh report and persisted one, and a second
\* call that returned that report with every table as the first call left it
C27_Witness ==
    /\ Len(reportCalls) >= 2
    /\ IsEnsure(1) /\ IsEnsure(2)
    /\ FreshReports(1) = {}
    /\ PersistedOne(1)
    /\ reportCalls[1].before.cma_reports # <<>>
    /\ ReturnedFresh(2)
    /\ reportCalls[2].run.report = reportCalls[1].run.report
    /\ db = reportCalls[1].run.tx
    /\ ListingRow(db.listings, "S").market_estimate_cents
          = Some(reportCalls[1].run.report.price_mid_cents)

----------------------------------------------------------------------------
(* Properties of the draft approval endpoint (SpecApprove) *)

Approved(r) == requests[r].pc = "HTTP 202"

\* C29: approval is a guarded one-way transition: a request is answered with
\* an approval only when the draft belongs to its client and the status it
\* replaces is draft or pending_approval, and no draft is approved by more
\* than one request.
C29_ApprovedAtMostOnce ==
    /\ \A r \in RequestIds :
          Approved(r) =>
              /\ requests[r].replaced[1].client_id = requests[r].client_id
              /\ requests[r].replaced[1].status \in {"draft", "pending_approval"}
    /\ \A r1, r2 \in RequestIds :
          (Approved(r1) /\ Approved(r2)
           /\ requests[r1].draft_id = requests[r2].draft_id)
          => r1 = r2

\* an approval replaces a status other than draft or pending_approval only
\* when the status changed after the request had loaded the draft
RepeatedApprovalReadEarlier ==
    \A r \in RequestIds :
        (Approved(r) /\ requests[r].replaced[1].status
                           \notin {"draft", "pending_approval"})
        => requests[r].loaded[1].status # requests[r].replaced[1].status

\* a request is answered with an approval only for a draft of its client
\* that it loaded as draft or pending_approval
ApprovedOnlyOwnApprovable ==
    \A r \in RequestIds :
        Approved(r) =>
            /\ requests[r].loaded[1].client_id = requests[r].client_id
            /\ requests[r].loaded[1].id = requests[r].draft_id
            /\ requests[r].loaded[1].status \in {"draft", "pending_approval"}

----------------------------------------------------------------------------
(* Properties of upsert_listing (SpecUpsert) *)

\* the stored listing i had a list price and the upsert gave it another one
PriceChanged(i) ==
    /\ FieldTruthy(db.listings[i].list_price_cents)
    /\ FieldTruthy(db'.listings[i].list_price_cents)
    /\ db.listings[i].list_price_cents # db'.listings[i].list_price_cents

\* C30: when an upsert changes the list price of a stored listing from one
\* non-empty value to another, the list_price_history afterwards is the
\* history before (its latest entries, 50 in all at most) followed by an
\* entry with previous = the old price and new = the new price, whatever the
\* order in which the fields are processed.
C30_PriceChangeAppended ==
    [][\A i \in 1..Len(db.listings) :
          PriceChanged(i) =>
              /\ db'.listings[i].list_price_history # <<>>
              /\ LET after == db'.listings[i].list_price_history
                     added == after[Len(after)]
                 IN  /\ added.previous = db.listings[i].list_price_cents[1]
                     /\ added.new = db'.listings[i].list_price_cents[1]
                     /\ SubSeq(after, 1, Len(after) - 1)
                           = LastN(db.listings[i].list_price_history,
                                   HistoryLimit - 1)]_vars

\* the history after a price change is either what the provider sent or
\* that followed by the entry of the change
HistoryFromPayload ==
    [][\A i \in 1..Len(db.listings) :
          PriceChanged(i) =>
              LET sent == Head(requests.stream).list_price_history
                  added == [at |-> clock.t,
                            previous |-> db.listings[i].list_price_cents[1],
                            new |-> db'.listings[i].list_price_cents[1]]
              IN  \/ db'.listings[i].list_price_history = sent
                  \/ db'.listings[i].list_price_history = Append(sent, added)]_vars

====
